---- MODULE Spec2Model ----
(***************************************************************************)
(* Ultrasonic attendance: the handshake between the coordinator            *)
(* (TeacherView) and the participants (StudentView) over the shared        *)
(* 'queue' collection, with the pattern utilities they use.                *)
(*                                                                         *)
(* Conventions of the model                                                *)
(*  - An optional value (a field that may be undefined, a ref that may be  *)
(*    null) is a sequence of length 0 or 1: None, Some(x).                 *)
(*  - An async function is cut at its awaits: one action runs from one     *)
(*    await to the next.  A store write (updateDoc) takes effect, or is    *)
(*    rejected because the document is gone, when it is called; the        *)
(*    promise it returned settles in a later step.  verifyStudent's write  *)
(*    keeps the interval between call and effect instead.  The writes of   *)
(*    handleRetry and handleCancel settle in the step that makes them.     *)
(*  - A snapshot listener is a flag (a notification is pending); the       *)
(*    callback sees the store as it is when it runs.  The coordinator's    *)
(*    listener is handed the coordinator's own batch writes before their   *)
(*    promises settle (the local echo of a write).                         *)
(*  - React state (queue, isProcessing) has a rendered value, which is     *)
(*    what closures created by that render see, and a pending value that   *)
(*    the next render commits.                                             *)
(***************************************************************************)
EXTENDS Integers, Sequences, FiniteSets, TLC

\* ------------------------------------------------------------------ bounds
NumStudents == 2
MaxRequests == 1
MaxPQ == 2
MaxOrphans == 1
MaxCount == 2
MaxBatches == 3
MaxEmitted == 6
MaxDetected == 7
MaxSuffix == 2
MaxFrames == 4
MaxRetained == 22
MaxNoiseFrames == 4
MaxLength == 7
NumVolumes == 2
TestsPerConfig == 2
MaxPulses == 3

\* --------------------------------------------------------- program constants
NUM_PULSES == 6
PASS_THRESHOLD == NUM_PULSES - 1
FREQ_LOW == 17500
FREQ_HIGH == 19000
FREQ_TOLERANCE == 250
MAX_PEAKS == 20
PEAK_MERGE_FREQ_HZ == 400
PEAK_MERGE_TIME_MS == 80
MAX_RETRIES == 3

Students == 1..NumStudents

None == <<>>
Some(x) == <<x>>
IsSome(o) == Len(o) > 0
Val(o) == o[1]

Min(S) == CHOOSE x \in S : \A y \in S : x <= y

\* ----------------------------------------------------------------- patterns
PulseType == {"H", "L"}

AllPatterns(n) == [1..n -> PulseType]

\* The patterns the loop of generatePattern can end with: `pattern` holds the
\* symbols pushed so far, i is the loop counter, every Math.random() < 0.5
\* goes either way.
RECURSIVE GenerateLoop(_, _, _)
GenerateLoop(pattern, i, length) ==
    IF i < length
    THEN UNION {GenerateLoop(Append(pattern, IF r THEN "H" ELSE "L"),
                             i + 1, length) : r \in BOOLEAN}
    ELSE {pattern}

\* A loop that stops one symbol early.
generatePatternShort(length) == GenerateLoop(<<>>, 1, length)

\* The values generatePattern(length) can return.
generatePattern(length) == GenerateLoop(<<>>, 0, length)

\* The pattern the rounds are run with (one value of generatePattern's range)
\* and the detections a recording participant may end up with: nothing, the
\* whole pattern, part of it.
PatternSample ==
    {p \in generatePattern(NUM_PULSES) : p = <<"H", "L", "H", "H", "L", "H">>}
DetectionSample == {<<>>, <<"H", "L", "H", "H", "L", "H">>, <<"L", "H", "L">>}

\* Sequences of pulses of length at most n.
PatternsUpTo(n) == UNION {AllPatterns(k) : k \in 0..n}

\* A loop that gives up at the first detection that does not match.
RECURSIVE MatchLoopPrefix(_, _, _, _)
MatchLoopPrefix(emitted, detected, emitIndex, detectIndex) ==
    IF emitIndex < Len(emitted) /\ detectIndex < Len(detected)
    THEN IF emitted[emitIndex + 1] = detected[detectIndex + 1]
         THEN 1 + MatchLoopPrefix(emitted, detected, emitIndex + 1, detectIndex + 1)
         ELSE 0
    ELSE 0

\* A loop that does not move on in emitted after a match.
RECURSIVE MatchLoopNoAdvance(_, _, _, _)
MatchLoopNoAdvance(emitted, detected, emitIndex, detectIndex) ==
    IF emitIndex < Len(emitted) /\ detectIndex < Len(detected)
    THEN IF emitted[emitIndex + 1] = detected[detectIndex + 1]
         THEN 1 + MatchLoopNoAdvance(emitted, detected, emitIndex, detectIndex + 1)
         ELSE MatchLoopNoAdvance(emitted, detected, emitIndex, detectIndex + 1)
    ELSE 0

\* A loop that, with emitted exhausted, goes on counting detections equal to
\* the last emitted symbol.
RECURSIVE MatchLoopUnbounded(_, _, _, _)
MatchLoopUnbounded(emitted, detected, emitIndex, detectIndex) ==
    IF detectIndex < Len(detected) /\ Len(emitted) > 0
    THEN LET e == IF emitIndex < Len(emitted) THEN emitIndex + 1 ELSE Len(emitted)
         IN  IF emitted[e] = detected[detectIndex + 1]
             THEN 1 + MatchLoopUnbounded(emitted, detected, emitIndex + 1,
                                         detectIndex + 1)
             ELSE MatchLoopUnbounded(emitted, detected, emitIndex, detectIndex + 1)
    ELSE 0

\* A loop that looks for the best alignment: at a mismatch it also tries
\* leaving the emitted symbol unmatched.
RECURSIVE MatchLoopBest(_, _, _, _)
MatchLoopBest(emitted, detected, emitIndex, detectIndex) ==
    IF emitIndex < Len(emitted) /\ detectIndex < Len(detected)
    THEN IF emitted[emitIndex + 1] = detected[detectIndex + 1]
         THEN 1 + MatchLoopBest(emitted, detected, emitIndex + 1, detectIndex + 1)
         ELSE LET skipDetected == MatchLoopBest(emitted, detected, emitIndex,
                                                detectIndex + 1)
                  skipEmitted == MatchLoopBest(emitted, detected, emitIndex + 1,
                                               detectIndex)
              IN  IF skipDetected >= skipEmitted THEN skipDetected ELSE skipEmitted
    ELSE 0

RECURSIVE MatchLoop(_, _, _, _)
MatchLoop(emitted, detected, emitIndex, detectIndex) ==
    IF emitIndex < Len(emitted) /\ detectIndex < Len(detected)
    THEN IF emitted[emitIndex + 1] = detected[detectIndex + 1]
         THEN 1 + MatchLoop(emitted, detected, emitIndex + 1, detectIndex + 1)
         ELSE MatchLoop(emitted, detected, emitIndex, detectIndex + 1)
    ELSE 0

\* passed only with every pulse matched.
comparePatternsStrict(emitted, detected) ==
    LET matchCount == MatchLoop(emitted, detected, 0, 0)
    IN  [matchCount |-> matchCount, passed |-> matchCount > PASS_THRESHOLD]

comparePatterns(emitted, detected) ==
    LET matchCount == MatchLoop(emitted, detected, 0, 0)
    IN  [matchCount |-> matchCount, passed |-> matchCount >= PASS_THRESHOLD]

\* ------------------------------------------------------- UltrasonicListener
Abs(x) == IF x < 0 THEN 0 - x ELSE x

\* noiseFloor as startRecording and clearPeaks set it (dB).  The band's median
\* stays below it in the frames followed here, so it does not adapt.
NoiseFloor == 0 - 100

\* snr >= 20 * log10(SNR_THRESHOLD), SNR_THRESHOLD = 1.5: 3.52 dB
PassesThreshold(snr) == snr * 100 >= 352

\* What a frame can measure: the strongest bin's frequency (Hz), its
\* amplitude (dB), and the time since the frame before (ms).
FrameFrequencies == {17300, 17500, 17700, 18250, 18750, 19000}
FrameAmplitudes == {0 - 98, 0 - 60, 0 - 40}
FrameGaps == {20, 80}

DetectedPeak(freq, maxAmplitude, now) ==
    [frequency |-> freq, amplitude |-> maxAmplitude, timestamp |-> now,
     type |-> IF Abs(freq - FREQ_HIGH) <= FREQ_TOLERANCE THEN "H" ELSE "L",
     snr |-> maxAmplitude - NoiseFloor]

\* The frame's detection is recorded: it passes the SNR threshold and lies in
\* one of the two valid bands.
Accepted(freq, maxAmplitude) ==
    /\ PassesThreshold(maxAmplitude - NoiseFloor)
    /\ \/ Abs(freq - FREQ_HIGH) <= FREQ_TOLERANCE
       \/ Abs(freq - FREQ_LOW) <= FREQ_TOLERANCE

\* The retained peak a detection is merged with.
SamePeak(p, freq, now) ==
    /\ Abs(p.frequency - freq) < PEAK_MERGE_FREQ_HZ
    /\ now - p.timestamp < PEAK_MERGE_TIME_MS

\* this.peaks.find(...): the index of the first such peak, 0 if there is none.
FindExisting(peaks, freq, now) ==
    LET M == {k \in 1..Len(peaks) : SamePeak(peaks[k], freq, now)}
    IN  IF M = {} THEN 0 ELSE Min(M)

\* A merge that takes the new detection whether it is stronger or not.
analyzeLoopOverwrite(peaks, freq, maxAmplitude, now) ==
    IF ~Accepted(freq, maxAmplitude) THEN peaks
    ELSE LET k == FindExisting(peaks, freq, now)
         IN  IF k # 0
             THEN [peaks EXCEPT ![k] = DetectedPeak(freq, maxAmplitude, now)]
             ELSE Append(peaks, DetectedPeak(freq, maxAmplitude, now))

\* A frame that records the strongest bin wherever it lies in the passband.
analyzeLoopAnyFrequency(peaks, freq, maxAmplitude, now) ==
    IF ~PassesThreshold(maxAmplitude - NoiseFloor) THEN peaks
    ELSE LET k == FindExisting(peaks, freq, now)
         IN  IF k # 0
             THEN IF maxAmplitude > peaks[k].amplitude
                  THEN [peaks EXCEPT ![k] = DetectedPeak(freq, maxAmplitude, now)]
                  ELSE peaks
             ELSE Append(peaks, DetectedPeak(freq, maxAmplitude, now))

\* One frame of analyzeLoop on this.peaks.
analyzeLoop(peaks, freq, maxAmplitude, now) ==
    IF ~Accepted(freq, maxAmplitude) THEN peaks
    ELSE LET k == FindExisting(peaks, freq, now)
         IN  IF k # 0
             THEN IF maxAmplitude > peaks[k].amplitude
                  THEN [peaks EXCEPT ![k] = DetectedPeak(freq, maxAmplitude, now)]
                  ELSE peaks
             ELSE Append(peaks, DetectedPeak(freq, maxAmplitude, now))

Range(seq) == {seq[k] : k \in 1..Len(seq)}

\* Array.prototype.sort is stable: insertion after the elements that do not
\* come later.  (a, b) => b.amplitude - a.amplitude:
RECURSIVE InsertByAmplitude(_, _)
InsertByAmplitude(x, sorted) ==
    IF sorted = <<>> THEN <<x>>
    ELSE IF x.amplitude > Head(sorted).amplitude THEN <<x>> \o sorted
    ELSE <<Head(sorted)>> \o InsertByAmplitude(x, Tail(sorted))

RECURSIVE SortByAmplitude(_)
SortByAmplitude(seq) ==
    IF seq = <<>> THEN <<>>
    ELSE InsertByAmplitude(seq[Len(seq)],
                           SortByAmplitude(SubSeq(seq, 1, Len(seq) - 1)))

\* (a, b) => a.timestamp - b.timestamp:
RECURSIVE InsertByTimestamp(_, _)
InsertByTimestamp(x, sorted) ==
    IF sorted = <<>> THEN <<x>>
    ELSE IF x.timestamp < Head(sorted).timestamp THEN <<x>> \o sorted
    ELSE <<Head(sorted)>> \o InsertByTimestamp(x, Tail(sorted))

RECURSIVE SortByTimestamp(_)
SortByTimestamp(seq) ==
    IF seq = <<>> THEN <<>>
    ELSE InsertByTimestamp(seq[Len(seq)],
                           SortByTimestamp(SubSeq(seq, 1, Len(seq) - 1)))

\* A cap that keeps the first MAX_PEAKS peaks, whatever their amplitude.
stopAndAnalyzeEarliest(peaks) ==
    SortByTimestamp(IF Len(peaks) > MAX_PEAKS
                    THEN SubSeq(peaks, 1, MAX_PEAKS) ELSE peaks)

\* A return without the final chronological sort.
stopAndAnalyzeUnsorted(peaks) ==
    IF Len(peaks) > MAX_PEAKS
    THEN SubSeq(SortByAmplitude(peaks), 1, MAX_PEAKS) ELSE peaks

\* What stopAndAnalyze returns for this.peaks.
stopAndAnalyze(peaks) ==
    SortByTimestamp(IF Len(peaks) > MAX_PEAKS
                    THEN SubSeq(SortByAmplitude(peaks), 1, MAX_PEAKS)
                    ELSE peaks)

\* Retained peaks: n peaks 100 ms apart, in time order or (after merges that
\* moved timestamps) in reverse, of amplitude -60 dB except two stronger ones
\* and a weaker one at any positions (position 0: none).
RetainedPeaks(n, strong1, strong2, weak, reversed) ==
    [k \in 1..n |->
        DetectedPeak(IF k % 2 = 0 THEN FREQ_HIGH ELSE FREQ_LOW,
                     IF k = strong1 \/ k = strong2 THEN 0 - 30
                     ELSE IF k = weak THEN 0 - 80 ELSE 0 - 60,
                     IF reversed THEN 100 * (n + 1 - k) ELSE 100 * k)]

\* ------------------------------------------------------------ emitter config
\* volume is in percent (0.75 -> 75); useOutputFilter is "true", "false" or
\* "undefined" (the field is absent); filterCutoff is optional.
DEFAULT_CONFIG ==
    [volume |-> 75, freqLow |-> 17500, freqHigh |-> 19000,
     pulseDuration |-> 100, pulseGap |-> 80,
     useOutputFilter |-> "undefined", filterCutoff |-> None]

Configs == {DEFAULT_CONFIG, [DEFAULT_CONFIG EXCEPT !.volume = 50]}

\* Configs that differ from DEFAULT_CONFIG in one field each, one of them with
\* digits that move across a field boundary (freqLow 1750, freqHigh 19000 ->
\* 17501, 9000).
ConfigSample ==
    {DEFAULT_CONFIG,
     [DEFAULT_CONFIG EXCEPT !.volume = 50],
     [DEFAULT_CONFIG EXCEPT !.freqLow = 17000],
     [DEFAULT_CONFIG EXCEPT !.freqHigh = 19500],
     [DEFAULT_CONFIG EXCEPT !.pulseDuration = 120],
     [DEFAULT_CONFIG EXCEPT !.pulseGap = 60],
     [DEFAULT_CONFIG EXCEPT !.useOutputFilter = "true"],
     [DEFAULT_CONFIG EXCEPT !.useOutputFilter = "false"],
     [DEFAULT_CONFIG EXCEPT !.filterCutoff = Some(15000)],
     [DEFAULT_CONFIG EXCEPT !.freqLow = 1750, !.freqHigh = 19000],
     [DEFAULT_CONFIG EXCEPT !.freqLow = 17501, !.freqHigh = 9000]}

\* `${x}` of a template literal for a number and for an optional number.
NumberToString(n) == ToString(n)

OptionalToString(o) == IF IsSome(o) THEN NumberToString(Val(o)) ELSE "undefined"

\* The key without its separators.
getConfigKeyUnseparated(c) ==
    NumberToString(c.volume) \o NumberToString(c.freqLow)
        \o NumberToString(c.freqHigh) \o NumberToString(c.pulseDuration)
        \o NumberToString(c.pulseGap) \o c.useOutputFilter
        \o OptionalToString(c.filterCutoff)

getConfigKey(c) ==
    NumberToString(c.volume) \o "_" \o NumberToString(c.freqLow) \o "_"
        \o NumberToString(c.freqHigh) \o "_" \o NumberToString(c.pulseDuration)
        \o "_" \o NumberToString(c.pulseGap) \o "_" \o c.useOutputFilter
        \o "_" \o OptionalToString(c.filterCutoff)

\* ------------------------------------------------------------------- store
QueueStatus ==
    {"waiting", "ready", "emitting", "listening", "submitted", "verified", "failed"}

\* The document joinQueue creates.
NewEntry ==
    [ex |-> TRUE, status |-> "waiting", batchId |-> 0,
     emittedPattern |-> None, detectedPattern |-> None,
     matchCount |-> None, passed |-> None, verifiedAt |-> FALSE]

\* updateDoc's merge of the given fields into a document.
Merge(doc, fields) ==
    [f \in DOMAIN doc |-> IF f \in DOMAIN fields THEN fields[f] ELSE doc[f]]

\* The fields updateQueueStatus writes.
StatusFields(st, additionalData) ==
    LET base == [f \in DOMAIN additionalData \cup {"status"} |->
                    IF f = "status" THEN st ELSE additionalData[f]]
    IN  IF st \in {"verified", "failed"}
        THEN [f \in DOMAIN base \cup {"verifiedAt"} |->
                 IF f = "verifiedAt" THEN TRUE ELSE base[f]]
        ELSE base

\* updateQueueStatus called without additionalData
NoData == <<>>

VARIABLES
    store,            \* the 'queue' collection: one document per participant
    config,           \* the config field of each document (set by joinQueue)
    sDirty,           \* a document snapshot is pending for participant s
    qDirty,           \* the queue snapshot pending for the coordinator: "no",
                      \* "remote", or "local" if it holds a write of its own
    queue,            \* TeacherView: queue state (= queueRef.current)
    isProcessing,     \* TeacherView: rendered isProcessing state
    isProcessingNext, \* TeacherView: setIsProcessing value not yet rendered
    processTimeoutRef,\* TeacherView: the debounce timer, with what its closure holds
    recheckTimers,    \* TeacherView: pending 50 ms recheck timers
    pq,               \* TeacherView: the processQueue executions
    batchSeq,         \* number of batch ids handed out
    verifyingRef,     \* TeacherView: verifyingRef, with verifyStudent's write
    student,          \* StudentView: state, refs and continuations per participant
    round,            \* per participant: counts since the round / submission began
    calc              \* a function or component examined on its own: the call or its state

vars == <<store, config, sDirty, qDirty, queue, isProcessing, isProcessingNext,
          processTimeoutRef, recheckTimers, pq, batchSeq, verifyingRef,
          student, round, calc>>

\* No pure function is being followed.
NoCall == [op |-> "none"]

programVars == <<store, config, sDirty, qDirty, queue, isProcessing, isProcessingNext,
                 processTimeoutRef, recheckTimers, pq, batchSeq, verifyingRef,
                 student, round>>

teacherVars == <<queue, isProcessing, isProcessingNext, processTimeoutRef,
                 recheckTimers, pq, batchSeq, verifyingRef>>

\* ===================================================================== store

Rejected(s) == ~store[s].ex

\* How the promise of updateQueueStatus settles: updateDoc rejects for a
\* document that does not exist, and the catch logs and rethrows.
updateQueueStatusSwallows(db, s) == "resolved"

updateQueueStatusSettles(db, s) == IF db[s].ex THEN "resolved" ELSE "rejected"

\* updateQueueStatus(id, st, additionalData) applied to a store value.
updateQueueStatus(db, s, st, additionalData) ==
    IF db[s].ex
    THEN [db EXCEPT ![s] = Merge(@, StatusFields(st, additionalData))]
    ELSE db

RECURSIVE UpdateAll(_, _, _, _)
UpdateAll(db, S, st, additionalData) ==
    IF S = {} THEN db
    ELSE LET s == Min(S)
         IN  UpdateAll(updateQueueStatus(db, s, st, additionalData),
                       S \ {s}, st, additionalData)

\* Every listener of a changed document is notified.  The coordinator's own
\* listener gets the write before the write's promise settles.
Notified(S) ==
    /\ sDirty' = [s \in Students |-> sDirty[s] \/ (s \in S /\ store[s].ex)]
    /\ qDirty' = IF \E s \in S : store[s].ex THEN "local" ELSE qDirty

\* ================================================================ StudentView

StudentInit ==
    [status |-> "idle", queueId |-> TRUE,
     listenerRef |-> "null", isRecording |-> FALSE, orphans |-> 0, leaked |-> FALSE,
     hasSubmittedRef |-> FALSE, micReadyRef |-> FALSE,
     responseTimeoutRef |-> FALSE, readyTimeoutRef |-> FALSE,
     hRequest |-> "none",
     hListen |-> FALSE, hSubmit |-> "none", requests |-> 0]

RoundInit == [writes |-> 0, stops |-> 0, verifies |-> 0]

Bump(n) == IF n < MaxCount THEN n + 1 ELSE n

clearTimeouts(st) ==
    [st EXCEPT !.responseTimeoutRef = FALSE, !.readyTimeoutRef = FALSE]

\* StudentView.cleanup with UltrasonicListener.cleanup: a listener whose init()
\* is still pending has no stream to stop yet; it is dropped from the ref and
\* its init() goes on.
cleanup(st) ==
    [clearTimeouts(st) EXCEPT
        !.hasSubmittedRef = FALSE,
        !.micReadyRef = FALSE,
        !.listenerRef = "null",
        !.isRecording = FALSE,
        !.orphans = IF st.listenerRef = "initing" /\ st.orphans < MaxOrphans
                    THEN st.orphans + 1 ELSE st.orphans]

Released(st) ==
    /\ st.listenerRef = "null"
    /\ ~st.isRecording
    /\ st.orphans = 0
    /\ ~st.leaked

\* A submission: the request is submitted and carries a non-empty detectedPattern.
Submission(doc) ==
    /\ doc.ex
    /\ doc.status = "submitted"
    /\ IsSome(doc.detectedPattern)
    /\ Len(Val(doc.detectedPattern)) > 0

\* The counts kept per participant: detectedPattern writes and stopAndAnalyze
\* calls since the coordinator last wrote emitting (a new batchId), and
\* verifyStudent dispatches since the current submission began.
Counted(W, S, V) ==
    round' = [s \in Students |->
        LET r == round[s]
            newRound == store'[s].batchId # store[s].batchId
            newSubmission == Submission(store'[s]) /\ ~Submission(store[s])
        IN  [writes   |-> IF newRound THEN 0
                          ELSE IF s \in W THEN Bump(r.writes) ELSE r.writes,
             stops    |-> IF newRound THEN 0
                          ELSE IF s \in S THEN Bump(r.stops) ELSE r.stops,
             verifies |-> IF s \in V
                          THEN (IF newSubmission THEN 1 ELSE Bump(r.verifies))
                          ELSE IF newSubmission THEN 0 ELSE r.verifies]]

\* What stopAndAnalyze can return: peaks exist only if the listener finished
\* init() and its analysis loop has been running.
Detections(st) ==
    IF st.listenerRef = "ready" /\ st.isRecording THEN DetectionSample ELSE {<<>>}

\* A step of participant s that leaves the coordinator alone.  wrote: the step
\* changed s's document; took: the step consumed the pending snapshot.
StudentStep(s, st2, db2, took) ==
    /\ student' = [student EXCEPT ![s] = st2]
    /\ store' = db2
    /\ sDirty' = [sDirty EXCEPT ![s] = IF db2[s] # store[s] THEN TRUE
                                       ELSE IF took THEN FALSE ELSE @]
    /\ qDirty' = IF db2[s] # store[s] /\ qDirty = "no" THEN "remote" ELSE qDirty
    /\ UNCHANGED <<config, calc, teacherVars>>

\* submitDetectedPattern after its wait loop, followed by what the submitted
\* branch of handleStatusChange does when it returns or awaits the write.
SubmitNow(s, st, d) ==
    IF st.listenerRef = "null" \/ ~st.micReadyRef
    THEN /\ StudentStep(s, [st EXCEPT !.hSubmit = "none",
                                      !.responseTimeoutRef = TRUE], store, TRUE)
         /\ Counted({}, {}, {})
    ELSE /\ StudentStep(s,
                [st EXCEPT !.isRecording = FALSE,
                           !.hSubmit = IF Rejected(s) THEN "rejected" ELSE "written"],
                updateQueueStatus(store, s, "submitted",
                                  [detectedPattern |-> Some(d)]),
                TRUE)
         /\ Counted(IF Rejected(s) THEN {} ELSE {s}, {s}, {})

\* No test at all: every submitted notification submits.
ShouldSubmitAlways(entry, st) ==
    TRUE

\* The submitted branch's test: no detection in the entry and none submitted yet.
ShouldSubmit(entry, st) ==
    ~IsSome(entry.detectedPattern) /\ ~st.hasSubmittedRef

\* handleStatusChange(entry), up to its first await.
handleStatusChange(s, entry) ==
    LET st0 == student[s]
        st == IF entry.status # "ready"
              THEN [st0 EXCEPT !.readyTimeoutRef = FALSE] ELSE st0
    IN  CASE entry.status = "emitting" ->
               IF st.listenerRef = "null"
               THEN /\ StudentStep(s, [st EXCEPT !.status = "listening",
                                                 !.micReadyRef = FALSE,
                                                 !.listenerRef = "initing"],
                                   store, TRUE)
                    /\ Counted({}, {}, {})
               ELSE /\ StudentStep(s, [st EXCEPT !.status = "listening",
                                                 !.micReadyRef = TRUE],
                                   updateQueueStatus(store, s, "listening", NoData),
                                   TRUE)
                    /\ Counted({}, {}, {})
          [] entry.status = "submitted" ->
               IF ShouldSubmit(entry, st)
               THEN LET st1 == [st EXCEPT !.hasSubmittedRef = TRUE,
                                          !.status = "submitting"]
                    IN  IF st1.micReadyRef
                        THEN \E d \in Detections(st1) : SubmitNow(s, st1, d)
                        ELSE /\ StudentStep(s, [st1 EXCEPT !.hSubmit = "waiting"],
                                            store, TRUE)
                             /\ Counted({}, {}, {})
               ELSE /\ StudentStep(s,
                          IF IsSome(entry.detectedPattern)
                          THEN [st EXCEPT !.status = "submitting"] ELSE st,
                          store, TRUE)
                    /\ Counted({}, {}, {})
          [] entry.status \in {"verified", "failed"} ->
               /\ StudentStep(s, cleanup([st EXCEPT !.status = entry.status]),
                              store, TRUE)
               /\ Counted({}, {}, {})
          [] OTHER ->
               /\ StudentStep(s, st, store, TRUE)
               /\ Counted({}, {}, {})

\* One submitDetectedPattern is followed per participant: a notification that
\* would start another while one is in flight is delivered after it.
SecondSubmit(s) ==
    /\ student[s].hSubmit # "none"
    /\ store[s].ex
    /\ store[s].status = "submitted"
    /\ ~IsSome(store[s].detectedPattern)
    /\ ~student[s].hasSubmittedRef

\* The subscribeToMyRequest callback.
MyRequestCallback(s) ==
    /\ student[s].queueId
    /\ sDirty[s]
    /\ ~SecondSubmit(s)
    /\ IF store[s].ex
       THEN handleStatusChange(s, store[s])
       ELSE /\ StudentStep(s, [cleanup(student[s]) EXCEPT !.queueId = FALSE,
                                                          !.status = "idle"],
                           store, TRUE)
            /\ Counted({}, {}, {})

\* handleStatusChange (emitting) after `await listenerRef.current.init()`:
\* startRecording on whatever listenerRef holds now, then the listening signal.
AfterInit(s, st) ==
    IF st.listenerRef = "null"
    THEN /\ StudentStep(s, [st EXCEPT !.status = "error"], store, FALSE)
         /\ Counted({}, {}, {})
    ELSE /\ StudentStep(s,
                [st EXCEPT !.isRecording = TRUE,
                           !.micReadyRef = TRUE,
                           !.hListen = @ \/ Rejected(s)],
                updateQueueStatus(store, s, "listening", NoData),
                FALSE)
         /\ Counted({}, {}, {})

\* getUserMedia resolves for the listener in listenerRef.  startRecording starts
\* the analysis loop unless isRecording was already set on this listener (then
\* it returns at once and no loop runs: "deaf").
InitResolves(s) ==
    /\ student[s].listenerRef = "initing"
    /\ AfterInit(s, [student[s] EXCEPT
                        !.listenerRef = IF student[s].isRecording
                                        THEN "deaf" ELSE "ready"])

InitFails(s) ==
    /\ student[s].listenerRef = "initing"
    /\ StudentStep(s, [student[s] EXCEPT !.listenerRef = "failed",
                                         !.status = "error"], store, FALSE)
    /\ Counted({}, {}, {})

\* init() of a listener that cleanup dropped from listenerRef meanwhile.
OrphanInitResolves(s) ==
    /\ student[s].orphans > 0
    /\ AfterInit(s, [student[s] EXCEPT !.orphans = @ - 1, !.leaked = TRUE])

OrphanInitFails(s) ==
    /\ student[s].orphans > 0
    /\ StudentStep(s, [student[s] EXCEPT !.orphans = @ - 1,
                                         !.status = "error"], store, FALSE)
    /\ Counted({}, {}, {})

\* The catch of handleStatusChange (emitting) for a rejected listening write.
ListeningRejected(s) ==
    /\ student[s].hListen
    /\ StudentStep(s, [student[s] EXCEPT !.hListen = FALSE,
                                         !.status = "error"], store, FALSE)
    /\ Counted({}, {}, {})

\* submitDetectedPattern's wait for micReadyRef (50 ms polls, at most 2 s).
SubmitWait(s) ==
    /\ student[s].hSubmit = "waiting"
    /\ \E elapsed \in BOOLEAN :
          /\ student[s].micReadyRef \/ elapsed
          /\ \E d \in Detections(student[s]) : SubmitNow(s, student[s], d)

\* The submitted branch after `await submitDetectedPattern(entry.id)`.
SubmitSettles(s) ==
    /\ student[s].hSubmit \in {"written", "rejected"}
    /\ StudentStep(s,
          [student[s] EXCEPT !.hSubmit = "none",
                             !.responseTimeoutRef =
                                 IF student[s].hSubmit = "written" THEN TRUE ELSE @],
          store, FALSE)
    /\ Counted({}, {}, {})

\* handleRetry as seen by a closure whose queueId is qid.  A rejected write is
\* swallowed by its empty catch.
handleRetry(s, qid) ==
    /\ StudentStep(s, [cleanup(student[s]) EXCEPT !.status = "idle"],
                   IF qid THEN updateQueueStatus(store, s, "waiting", NoData)
                   ELSE store,
                   FALSE)
    /\ Counted({}, {}, {})

\* queueId in the closure of handleStatusChange: useCallback(..., []) keeps the
\* function of the first render, where queueId is still null.
FirstRenderQueueId == FALSE

\* The response timer set by the submitted branch of handleStatusChange.
ResponseTimeout(s) ==
    /\ student[s].responseTimeoutRef
    /\ handleRetry(s, FirstRenderQueueId)

\* The primary button in status verified, failed or error.
RetryClick(s) ==
    /\ student[s].status \in {"verified", "failed", "error"}
    /\ student[s].queueId
    /\ handleRetry(s, student[s].queueId)

ReadyTimeout(s) ==
    /\ student[s].readyTimeoutRef
    /\ StudentStep(s, [student[s] EXCEPT !.readyTimeoutRef = FALSE,
                                         !.status = "error"], store, FALSE)
    /\ Counted({}, {}, {})

\* The primary button in status idle.
handleRequestEmit(s) ==
    /\ student[s].status = "idle"
    /\ student[s].queueId
    /\ student[s].hRequest = "none"
    /\ student[s].requests < MaxRequests
    /\ StudentStep(s,
          [student[s] EXCEPT !.status = "requesting",
                             !.requests = @ + 1,
                             !.hRequest = IF Rejected(s) THEN "rejected" ELSE "written"],
          updateQueueStatus(store, s, "ready", NoData), FALSE)
    /\ Counted({}, {}, {})

RequestSettles(s) ==
    /\ student[s].hRequest # "none"
    /\ StudentStep(s,
          IF student[s].hRequest = "written"
          THEN [student[s] EXCEPT !.hRequest = "none", !.status = "ready",
                                  !.readyTimeoutRef = TRUE]
          ELSE cleanup([student[s] EXCEPT !.hRequest = "none", !.status = "error"]),
          store, FALSE)
    /\ Counted({}, {}, {})

\* The Cancel button (shown in status ready).  A rejected write is only
\* logged by the catch.
handleCancel(s) ==
    /\ student[s].status = "ready"
    /\ StudentStep(s,
          cleanup([student[s] EXCEPT !.status = "idle"]),
          IF student[s].queueId
          THEN updateQueueStatus(store, s, "waiting", NoData) ELSE store,
          FALSE)
    /\ Counted({}, {}, {})

\* ============================================================== environment

\* The document disappears: endSession's cleanup, a manual deletion, the
\* participant's other tab.
DeleteRequest(s) ==
    /\ store[s].ex
    /\ store' = [store EXCEPT ![s].ex = FALSE]
    /\ sDirty' = [sDirty EXCEPT ![s] = TRUE]
    /\ qDirty' = IF qDirty = "no" THEN "remote" ELSE qDirty
    /\ Counted({}, {}, {})
    /\ UNCHANGED <<config, calc, teacherVars, student>>

\* The document listener fires again for the same document.
Renotify(s) ==
    /\ student[s].queueId
    /\ store[s].ex
    /\ ~sDirty[s]
    /\ sDirty' = [sDirty EXCEPT ![s] = TRUE]
    /\ UNCHANGED <<store, config, calc, qDirty, teacherVars, student, round>>

\* ================================================================ TeacherView

PQIdle ==
    [pc |-> "idle", isProcessing |-> FALSE, groups |-> <<>>, batchId |-> 0,
     pattern |-> <<>>, allReady |-> FALSE, seenAll |-> FALSE,
     timedOut |-> FALSE, rejected |-> FALSE, emitted |-> FALSE]

Running == {i \in 1..MaxPQ : pq[i].pc # "idle"}

ReadyStudents(q) == {s \in Students : q[s].ex /\ q[s].status = "ready"}

\* processQueue's Map of config key -> students, in insertion order.
RECURSIVE ConfigGroups(_)
ConfigGroups(S) ==
    IF S = {} THEN <<>>
    ELSE LET first == Min(S)
             group == {s \in S : getConfigKey(config[s]) = getConfigKey(config[first])}
         IN  <<group>> \o ConfigGroups(S \ group)

\* The debounce effect for a render with queue q and isProcessing proc: its
\* cleanup clears the timer, then the timer is set again if the guard holds.
\* The timer's closure holds that render's isProcessing.  gen tells a timer
\* set again from the timer it replaces.
DebounceEffect(q, proc) ==
    IF ReadyStudents(q) # {} /\ ~proc
    THEN Some([isProcessing |-> proc,
               gen |-> IF IsSome(processTimeoutRef)
                       THEN 1 - Val(processTimeoutRef).gen ELSE 0])
    ELSE None

\* The write verifyStudent(entry) makes.
verifyStudent(entry) ==
    IF ~IsSome(entry.emittedPattern) \/ ~IsSome(entry.detectedPattern)
    THEN [status |-> "failed", data |-> NoData]
    ELSE LET result == comparePatterns(Val(entry.emittedPattern),
                                       Val(entry.detectedPattern))
         IN  [status |-> IF result.passed THEN "verified" ELSE "failed",
              data |-> [matchCount |-> Some(result.matchCount),
                        passed |-> Some(result.passed)]]

\* The requests the verify effect dispatches for a render with queue q.
VerifyFilter(q, s) == Submission(q[s])

\* The effect without the verifyingRef test.
ToVerifyUnguarded(q) ==
    {s \in Students : VerifyFilter(q, s)}

ToVerify(q) ==
    {s \in Students : VerifyFilter(q, s) /\ ~IsSome(verifyingRef[s])}

\* The queue snapshot listener, the render it causes and that render's effects.
QueueSnapshot ==
    /\ qDirty # "no"
    /\ qDirty' = "no"
    /\ queue' = store
    /\ isProcessing' = IF IsSome(isProcessingNext) THEN Val(isProcessingNext)
                       ELSE isProcessing
    /\ isProcessingNext' = None
    /\ processTimeoutRef' = DebounceEffect(queue', isProcessing')
    /\ verifyingRef' = [s \in Students |->
          IF s \in ToVerify(queue')
          THEN Some(verifyStudent(queue'[s]))
          ELSE verifyingRef[s]]
    /\ UNCHANGED <<store, config, calc, sDirty, recheckTimers, pq, batchSeq, student>>
    /\ Counted({}, {}, ToVerify(store))

\* A render caused by setIsProcessing alone.
Render ==
    /\ IsSome(isProcessingNext)
    /\ isProcessing' = Val(isProcessingNext)
    /\ isProcessingNext' = None
    /\ processTimeoutRef' = IF isProcessing' # isProcessing
                            THEN DebounceEffect(queue, isProcessing')
                            ELSE processTimeoutRef
    /\ UNCHANGED <<store, config, calc, sDirty, qDirty, queue, recheckTimers, pq,
                   batchSeq, verifyingRef, student, round>>

\* verifyStudent's updateDoc reaches the store and its promise settles: the
\* finally handler takes the id out of verifyingRef.
VerifyLands(s) ==
    /\ IsSome(verifyingRef[s])
    /\ LET w == Val(verifyingRef[s])
       IN  store' = updateQueueStatus(store, s, w.status, w.data)
    /\ verifyingRef' = [verifyingRef EXCEPT ![s] = None]
    /\ Notified({s})
    /\ Counted({}, {}, {})
    /\ UNCHANGED <<config, calc, queue, isProcessing, isProcessingNext,
                   processTimeoutRef, recheckTimers, pq, batchSeq, student>>

\* processBatch(group) up to its first await: the emitting writes.
BatchBegin(i, p, groups) ==
    \E pattern \in PatternSample :
       LET group == Head(groups)
           batchId == batchSeq + 1
       IN  /\ pq' = [pq EXCEPT ![i] =
                        [p EXCEPT !.pc = "emitting_written", !.groups = groups,
                                  !.batchId = batchId, !.pattern = pattern,
                                  !.allReady = FALSE, !.seenAll = FALSE,
                                  !.timedOut = FALSE, !.emitted = FALSE,
                                  !.rejected = \E s \in group : Rejected(s)]]
           /\ batchSeq' = batchId
           /\ store' = UpdateAll(store, group, "emitting",
                                 [batchId |-> batchId,
                                  emittedPattern |-> Some(pattern)])
           /\ Notified(group)

\* processQueue's finally block.
Finally(i, p) ==
    /\ pq' = [pq EXCEPT ![i] = PQIdle]
    /\ isProcessingNext' = Some(FALSE)
    /\ recheckTimers' = IF ReadyStudents(queue) # {}
                        THEN Append(recheckTimers, p.isProcessing)
                        ELSE recheckTimers
    /\ UNCHANGED <<store, sDirty, qDirty, batchSeq>>

\* processQueue(students) called from a closure whose isProcessing is proc.
processQueue(proc, students) ==
    IF proc \/ students = {}
    THEN UNCHANGED <<store, sDirty, qDirty, pq, batchSeq, isProcessingNext>>
    ELSE \E i \in 1..MaxPQ :
            /\ batchSeq + Len(ConfigGroups(students)) <= MaxBatches
            /\ pq[i].pc = "idle"
            /\ \A j \in 1..(i - 1) : pq[j].pc # "idle"
            /\ isProcessingNext' = Some(TRUE)
            /\ BatchBegin(i, [PQIdle EXCEPT !.isProcessing = proc],
                          ConfigGroups(students))

\* The 200 ms debounce timer.
DebounceFires ==
    /\ IsSome(processTimeoutRef)
    /\ processTimeoutRef' = None
    /\ processQueue(Val(processTimeoutRef).isProcessing, ReadyStudents(queue))
    /\ Counted({}, {}, {})
    /\ UNCHANGED <<config, calc, queue, isProcessing, recheckTimers, verifyingRef, student>>

\* The 50 ms timer set by processQueue's finally block.
RecheckFires ==
    /\ recheckTimers # <<>>
    /\ recheckTimers' = Tail(recheckTimers)
    /\ processQueue(Head(recheckTimers), ReadyStudents(queue))
    /\ Counted({}, {}, {})
    /\ UNCHANGED <<config, calc, queue, isProcessing, processTimeoutRef, verifyingRef,
                   student>>

\* The catch block of processBatch: failed for every student of the batch.
CatchBlock(i) ==
    LET group == Head(pq[i].groups)
    IN  /\ pq' = [pq EXCEPT ![i].pc = "failed_written",
                            ![i].rejected = \E s \in group : Rejected(s)]
        /\ store' = UpdateAll(store, group, "failed", NoData)
        /\ Notified(group)
        /\ UNCHANGED <<isProcessingNext, recheckTimers, batchSeq>>

\* The loop's test satisfied by one listening student.
HandshakeReadyAny(group) ==
    Cardinality({s \in group : queue[s].ex /\ queue[s].status = "listening"}) >= 1

\* One evaluation of the handshake loop's body: every student of the batch is
\* listening in queueRef.current.
HandshakeReady(group) ==
    Cardinality({s \in group : queue[s].ex /\ queue[s].status = "listening"})
        = Cardinality(group)

AllListening(group) ==
    \A s \in group : queue[s].ex /\ queue[s].status = "listening"

\* After the emitting writes: the catch block, or the handshake loop's first
\* pass (Date.now() - startTime is still below HANDSHAKE_TIMEOUT).
AfterEmittingWrites(i) ==
    /\ pq[i].pc = "emitting_written"
    /\ qDirty # "local"
    /\ IF pq[i].rejected
       THEN CatchBlock(i)
       ELSE /\ pq' = [pq EXCEPT
                  ![i].pc = IF HandshakeReady(Head(pq[i].groups))
                            THEN "buffer" ELSE "handshake",
                  ![i].allReady = HandshakeReady(Head(pq[i].groups)),
                  ![i].seenAll = AllListening(Head(pq[i].groups))]
            /\ UNCHANGED <<store, sDirty, qDirty, isProcessingNext,
                           recheckTimers, batchSeq>>
    /\ Counted({}, {}, {})
    /\ UNCHANGED <<config, calc, queue, isProcessing, processTimeoutRef, verifyingRef,
                   student>>

\* A later pass of the handshake loop, 50 ms after the one before: elapsed says
\* whether HANDSHAKE_TIMEOUT (3000 ms) has passed since startTime.
HandshakePoll(i) ==
    /\ pq[i].pc = "handshake"
    /\ \E elapsed \in BOOLEAN :
          /\ elapsed \/ HandshakeReady(Head(pq[i].groups))
          /\ pq' = [pq EXCEPT
                ![i].pc = "buffer",
                ![i].timedOut = elapsed,
                ![i].allReady = ~elapsed,
                ![i].seenAll = ~elapsed /\ AllListening(Head(pq[i].groups))]
    /\ UNCHANGED <<store, config, calc, sDirty, qDirty, queue, isProcessing,
                   isProcessingNext, processTimeoutRef, recheckTimers, batchSeq,
                   verifyingRef, student, round>>

\* emitterRef.current.emit(pattern, config) is called, 100 ms after the loop.
EmitStarts(i) ==
    /\ pq[i].pc = "buffer"
    /\ pq' = [pq EXCEPT ![i].pc = "emit", ![i].emitted = TRUE]
    /\ UNCHANGED <<store, config, calc, sDirty, qDirty, queue, isProcessing,
                   isProcessingNext, processTimeoutRef, recheckTimers, batchSeq,
                   verifyingRef, student, round>>

\* emit resolves: the emission window and its tail have passed.
EmitResolves(i) ==
    /\ pq[i].pc = "emit"
    /\ pq' = [pq EXCEPT ![i].pc = "latency"]
    /\ UNCHANGED <<store, config, calc, sDirty, qDirty, queue, isProcessing,
                   isProcessingNext, processTimeoutRef, recheckTimers, batchSeq,
                   verifyingRef, student, round>>

\* 150 ms later: submitted for every student of the batch.
SignalSubmit(i) ==
    /\ pq[i].pc = "latency"
    /\ LET group == Head(pq[i].groups)
       IN  /\ pq' = [pq EXCEPT ![i].pc = "submitted_written",
                               ![i].rejected = \E s \in group : Rejected(s)]
           /\ store' = UpdateAll(store, group, "submitted", NoData)
           /\ Notified(group)
    /\ Counted({}, {}, {})
    /\ UNCHANGED <<config, calc, queue, isProcessing, isProcessingNext,
                   processTimeoutRef, recheckTimers, batchSeq, verifyingRef,
                   student>>

\* processBatch has returned (or thrown): the next config group, or finally.
BatchEnds(i, thrown) ==
    IF ~thrown /\ Len(pq[i].groups) > 1
    THEN /\ BatchBegin(i, pq[i], Tail(pq[i].groups))
         /\ UNCHANGED <<isProcessingNext, recheckTimers>>
    ELSE Finally(i, pq[i])

AfterSubmittedWrites(i) ==
    /\ pq[i].pc = "submitted_written"
    /\ qDirty # "local"
    /\ IF pq[i].rejected
       THEN CatchBlock(i)
       ELSE BatchEnds(i, FALSE)
    /\ Counted({}, {}, {})
    /\ UNCHANGED <<config, calc, queue, isProcessing, processTimeoutRef, verifyingRef,
                   student>>

\* After the catch block's writes: a rejected one makes processBatch throw.
AfterFailedWrites(i) ==
    /\ pq[i].pc = "failed_written"
    /\ qDirty # "local"
    /\ BatchEnds(i, pq[i].rejected)
    /\ Counted({}, {}, {})
    /\ UNCHANGED <<config, calc, queue, isProcessing, processTimeoutRef, verifyingRef,
                   student>>

\* A document of another participant of the session changes: a queue snapshot
\* follows.
QueueChurn ==
    /\ qDirty = "no"
    /\ qDirty' = "remote"
    /\ UNCHANGED <<store, config, calc, sDirty, queue, isProcessing, isProcessingNext,
                   processTimeoutRef, recheckTimers, pq, batchSeq, verifyingRef,
                   student, round>>

\* ============================================================ specification

\* joinQueue has run for the participants in J with configs from C; the others
\* have no request.
\* The views as mounted over a store db in which seq batch ids have been
\* handed out: a participant whose request is in db has its queueId.
InitState(db, seq, C) ==
    /\ store = db
    /\ config \in C
    /\ sDirty = [s \in Students |-> FALSE]
    /\ qDirty = "no"
    /\ queue = store
    /\ isProcessing = FALSE
    /\ isProcessingNext = None
    /\ processTimeoutRef = None
    /\ recheckTimers = <<>>
    /\ pq = [i \in 1..MaxPQ |-> PQIdle]
    /\ batchSeq = seq
    /\ verifyingRef = [s \in Students |-> None]
    /\ student = [s \in Students |-> [StudentInit EXCEPT !.queueId = db[s].ex]]
    /\ round = [s \in Students |-> RoundInit]

InitProgram(J, C) ==
    InitState([s \in Students |-> [NewEntry EXCEPT !.ex = s \in J]], 0, C)

InitConfigured(J, C) == InitProgram(J, C) /\ calc = NoCall

InitJoined(J) ==
    InitConfigured(J, {c \in [Students -> Configs] :
                         \A s \in Students : s = 1 \/ s \notin J => c[s] = DEFAULT_CONFIG})

\* One participant has joined.
Init == InitJoined({1})

\* Every participant has joined.
InitAll == InitJoined(Students)

\* What a participant does in a round it stays in.
StudentRound(s) ==
    \/ handleRequestEmit(s)
    \/ RequestSettles(s)
    \/ MyRequestCallback(s)
    \/ InitResolves(s)
    \/ InitFails(s)
    \/ SubmitWait(s)
    \/ SubmitSettles(s)

\* What a participant does when it leaves a round, and what follows from it.
StudentAbandons(s) ==
    \/ handleCancel(s)
    \/ RetryClick(s)
    \/ ReadyTimeout(s)
    \/ ResponseTimeout(s)
    \/ OrphanInitResolves(s)
    \/ OrphanInitFails(s)
    \/ ListeningRejected(s)

StudentNext(s) == StudentRound(s) \/ StudentAbandons(s)

\* A processing round of the coordinator.
TeacherRound ==
    \/ QueueSnapshot
    \/ Render
    \/ DebounceFires
    \/ \E i \in 1..MaxPQ :
          \/ AfterEmittingWrites(i)
          \/ HandshakePoll(i)
          \/ EmitStarts(i)
          \/ EmitResolves(i)
          \/ SignalSubmit(i)
          \/ AfterSubmittedWrites(i)
          \/ AfterFailedWrites(i)
    \/ \E s \in Students : VerifyLands(s)

TeacherNext == TeacherRound \/ RecheckFires

\* One participant: everything that can happen to its request.  (With one
\* request nobody is ready when a round ends, so no recheck timer is set.)
Next ==
    \/ \E s \in Students : StudentNext(s)
    \/ TeacherRound
    \/ \E s \in Students : DeleteRequest(s) \/ Renotify(s)
    \/ QueueChurn

Spec == Init /\ [][Next]_vars

\* What a round and the Try Again that follows it leave in a request: the
\* batch's id and pattern, what the participant detected with the verdict on
\* it, and status waiting.
LeftByRound(detected) ==
    LET emitting == Merge(NewEntry,
                          StatusFields("emitting",
                                       [batchId |-> 1,
                                        emittedPattern |-> Some(CHOOSE p \in PatternSample : TRUE)]))
        submitted == Merge(emitting,
                           StatusFields("submitted",
                                        [detectedPattern |-> Some(detected)]))
        verdict == verifyStudent(submitted)
        ended == Merge(submitted, StatusFields(verdict.status, verdict.data))
    IN  Merge(ended, StatusFields("waiting", NoData))

\* A request that was cancelled before any batch took it is as joinQueue
\* created it.
RoundLeftovers ==
    {NewEntry} \cup {LeftByRound(d) : d \in DetectionSample \ {<<>>}}

\* One participant whose request has been asked for before (and cancelled, or
\* taken through a round), idle again.
InitAgain ==
    /\ \E left \in RoundLeftovers :
          InitState([s \in Students |->
                        IF s = 1 THEN left ELSE [NewEntry EXCEPT !.ex = FALSE]],
                    left.batchId, {[s \in Students |-> DEFAULT_CONFIG]})
    /\ calc = NoCall

SpecAgain == InitAgain /\ [][Next]_vars

\* Two participants.  The first goes through its round.  The second requests
\* and may leave (its tab closes: the request is deleted and nothing is
\* delivered to it any more).
NextPair ==
    \/ StudentRound(1)
    \/ TeacherNext
    \/ handleRequestEmit(2)
    \/ RequestSettles(2)
    \/ DeleteRequest(2)

SpecPair == InitAll /\ [][NextPair]_vars

\* Two participants, the first with a request that has been asked for before
\* (and cancelled, or taken through a round and reset with Try Again), the
\* second with a new one.
InitPairAgain ==
    /\ \E left \in RoundLeftovers :
          InitState([s \in Students |-> IF s = 1 THEN left ELSE NewEntry],
                    left.batchId, {[s \in Students |-> DEFAULT_CONFIG]})
    /\ calc = NoCall

SpecPairAgain == InitPairAgain /\ [][NextPair]_vars

\* Two participants with any two configs request; the coordinator batches them.
\* (Their tabs do not react: every handshake runs into its timeout.)
InitBatching == InitConfigured(Students, [Students -> ConfigSample])

NextBatching ==
    \/ \E s \in Students : handleRequestEmit(s) \/ RequestSettles(s)
    \/ QueueSnapshot
    \/ Render
    \/ DebounceFires
    \/ RecheckFires
    \/ \E i \in 1..MaxPQ :
          \/ AfterEmittingWrites(i)
          \/ HandshakePoll(i)
          \/ EmitStarts(i)
          \/ EmitResolves(i)
          \/ SignalSubmit(i)
          \/ AfterSubmittedWrites(i)

SpecBatching == InitBatching /\ [][NextBatching]_vars

\* No participant has joined.
InitNobody == InitProgram({}, {[s \in Students |-> DEFAULT_CONFIG]})

\* comparePatterns(emitted, detected) is called, and with it
\* comparePatterns(emitted, detected \o suffix).
InitCompare ==
    /\ InitNobody
    /\ calc \in [op : {"comparePatterns"},
                 emitted : PatternsUpTo(MaxEmitted),
                 detected : PatternsUpTo(MaxDetected),
                 suffix : PatternsUpTo(MaxSuffix),
                 returned : {FALSE},
                 result : {[matchCount |-> 0, passed |-> FALSE]},
                 extended : {[matchCount |-> 0, passed |-> FALSE]}]

CallCompare ==
    /\ calc.op = "comparePatterns"
    /\ ~calc.returned
    /\ calc' = [calc EXCEPT
                  !.returned = TRUE,
                  !.result = comparePatterns(calc.emitted, calc.detected),
                  !.extended = comparePatterns(calc.emitted,
                                               calc.detected \o calc.suffix)]
    /\ UNCHANGED programVars

SpecCompare == InitCompare /\ [][CallCompare]_vars

\* A listener that has just started recording: no peaks yet.
InitAnalyze ==
    /\ InitNobody
    /\ calc = [op |-> "analyzeLoop", peaks |-> <<>>, now |-> 0, frames |-> 0,
               accepted |-> 0,
               last |-> [accepted |-> FALSE, frequency |-> 0, amplitude |-> 0,
                         now |-> 0]]

\* requestAnimationFrame runs analyzeLoop.
AnalyzeFrame ==
    /\ calc.op = "analyzeLoop"
    /\ calc.frames < MaxFrames
    /\ \E freq \in FrameFrequencies, maxAmplitude \in FrameAmplitudes,
          gap \in FrameGaps :
          LET now == calc.now + gap
          IN  calc' = [calc EXCEPT
                  !.peaks = analyzeLoop(calc.peaks, freq, maxAmplitude, now),
                  !.now = now,
                  !.frames = @ + 1,
                  !.accepted = IF Accepted(freq, maxAmplitude) THEN @ + 1 ELSE @,
                  !.last = [accepted |-> Accepted(freq, maxAmplitude),
                            frequency |-> freq, amplitude |-> maxAmplitude,
                            now |-> now]]
    /\ UNCHANGED programVars

SpecAnalyze == InitAnalyze /\ [][AnalyzeFrame]_vars

\* A recording listener with retained peaks.
InitStop ==
    /\ InitNobody
    /\ \E n \in 0..MaxRetained :
          \E strong1 \in 0..n, strong2 \in 0..n, weak \in 0..n,
             reversed \in BOOLEAN :
             calc = [op |-> "stopAndAnalyze",
                     peaks |-> RetainedPeaks(n, strong1, strong2, weak, reversed),
                     returned |-> FALSE, result |-> <<>>]

CallStop ==
    /\ calc.op = "stopAndAnalyze"
    /\ ~calc.returned
    /\ calc' = [calc EXCEPT !.returned = TRUE,
                            !.result = stopAndAnalyze(calc.peaks)]
    /\ UNCHANGED programVars

SpecStop == InitStop /\ [][CallStop]_vars

\* ------------------------------------------------- listener: the noise floor
\* Amplitudes of this part are fixed-point, in units of 0.0001 dB, so that
\* MaxNoiseFrames successive updates by medians of whole dB are exact.
ToFixed(db) == db * 10000

\* What the median of a frame's bins can be, in dB; 0 dB is falsy, so that
\* `amplitudes[...] || -100` replaces it by -100.
FrameMedians == {0 - 120, 0 - 100, 0 - 90, 0 - 70, 0 - 50, 0}

medianAmplitude(median) == IF median = 0 THEN ToFixed(0 - 100) ELSE ToFixed(median)

\* An estimate that follows the median downwards as well.
adaptNoiseFloorBothWays(noiseFloor, median) ==
    (9 * noiseFloor + median) \div 10

\* if (medianAmplitude > this.noiseFloor) this.noiseFloor = ... * 0.9 + ... * 0.1
adaptNoiseFloor(noiseFloor, median) ==
    IF median > noiseFloor
    THEN (9 * noiseFloor + median) \div 10
    ELSE noiseFloor

\* A constructed listener: not recording, noiseFloor -100.
InitNoise ==
    /\ InitNobody
    /\ calc = [op |-> "noiseFloor", isRecording |-> FALSE,
               noiseFloor |-> ToFixed(NoiseFloor), frames |-> 0,
               last |-> "new", median |-> 0]

startRecording ==
    /\ calc.op = "noiseFloor"
    /\ calc' = IF calc.isRecording
               THEN [calc EXCEPT !.last = "startRecording"]
               ELSE [calc EXCEPT !.isRecording = TRUE,
                                 !.noiseFloor = ToFixed(NoiseFloor),
                                 !.last = "startRecording"]
    /\ UNCHANGED programVars

clearPeaks ==
    /\ calc.op = "noiseFloor"
    /\ calc' = [calc EXCEPT !.noiseFloor = ToFixed(NoiseFloor),
                            !.last = "clearPeaks"]
    /\ UNCHANGED programVars

\* One frame of analyzeLoop, as far as the noise floor goes.
NoiseFrame ==
    /\ calc.op = "noiseFloor"
    /\ calc.isRecording
    /\ calc.frames < MaxNoiseFrames
    /\ \E median \in FrameMedians :
          calc' = [calc EXCEPT
              !.noiseFloor = adaptNoiseFloor(@, medianAmplitude(median)),
              !.frames = @ + 1,
              !.median = medianAmplitude(median),
              !.last = "analyzeLoop"]
    /\ UNCHANGED programVars

\* stopAndAnalyze stops the frames and leaves the estimate alone.
StopRecording ==
    /\ calc.op = "noiseFloor"
    /\ calc.isRecording
    /\ calc' = [calc EXCEPT !.isRecording = FALSE, !.last = "stopAndAnalyze"]
    /\ UNCHANGED programVars

NextNoise == startRecording \/ clearPeaks \/ NoiseFrame \/ StopRecording

SpecNoise == InitNoise /\ [][NextNoise]_vars

\* generatePattern(length) is called, for any length up to MaxLength.
InitGenerate ==
    /\ InitNobody
    /\ calc \in [op : {"generatePattern"}, length : 0..MaxLength,
                 returned : {FALSE}, result : {<<>>}]

CallGenerate ==
    /\ calc.op = "generatePattern"
    /\ ~calc.returned
    /\ \E pattern \in generatePattern(calc.length) :
          calc' = [calc EXCEPT !.returned = TRUE, !.result = pattern]
    /\ UNCHANGED programVars

\* Either generatePattern is called on its own, or a participant's request is
\* taken through its rounds by the coordinator (processBatch calls
\* generatePattern() with the default length).
InitPattern == InitGenerate \/ Init

NextPattern ==
    \/ CallGenerate
    \/ calc = NoCall /\ Next

SpecPattern == InitPattern /\ [][NextPattern]_vars

\* ------------------------------------------------------ the auto-test driver
\* AutoTestPanel, for one run from startTesting to finishTesting or
\* stopTesting.  calc holds its state and refs: results, currentConfigIndex
\* (from 0), currentTestNumber (from 1, 0 before the run), isRunningRef,
\* pendingResultRef (set or null), timeoutRef (the 12 s timer is armed),
\* retryCountRef, retryTimers (pending 2 s retry timers), awaiting (what
\* runSingleTest is waiting for: "remote" onRequestEmit, "local" the local
\* test, "none"), and for the properties: retries (times the current test
\* was run again) and last (the latest step).  The closures of a test see the
\* currentConfigIndex and currentTestNumber of the render that started it,
\* which do not change until the test is recorded.
SystemErrors == {"Request Failed", "Timeout", "Local test error"}

TestResult(c, passed, matchScore, emittedPattern, detectedPattern) ==
    [config |-> c.currentConfigIndex, test |-> c.currentTestNumber,
     passed |-> passed, matchScore |-> matchScore,
     emittedPattern |-> emittedPattern, detectedPattern |-> detectedPattern]

\* What a test that ran to its verdict records.
Verdicts(c) ==
    {TestResult(c, TRUE, NUM_PULSES, "pattern", "detected"),
     TestResult(c, FALSE, 0, "pattern", "detected")}

runSingleTest(c) ==
    IF ~c.isRunningRef THEN c
    ELSE [c EXCEPT !.awaiting = IF c.isLocalMode THEN "local" ELSE "remote"]

\* useEffect on [currentTestNumber, currentConfigIndex], after a change.
RunNextEffect(c) ==
    IF c.isRunningRef /\ ~c.pendingResultRef /\ c.currentTestNumber # 0
          /\ c.retryCountRef = 0
    THEN runSingleTest(c) ELSE c

finishTesting(c) == [c EXCEPT !.isRunningRef = FALSE, !.pendingResultRef = FALSE]

recordResult(c, result) ==
    LET recorded == [c EXCEPT !.results = Append(@, result),
                              !.pendingResultRef = FALSE,
                              !.timeoutRef = FALSE,
                              !.retryCountRef = 0,
                              !.retries = 0]
    IN  IF c.currentTestNumber < TestsPerConfig
        THEN RunNextEffect([recorded EXCEPT !.currentTestNumber = @ + 1])
        ELSE IF c.currentConfigIndex + 1 < NumVolumes
        THEN RunNextEffect([recorded EXCEPT !.currentConfigIndex = @ + 1,
                                            !.currentTestNumber = 1])
        ELSE finishTesting(recorded)

\* A test that is run again once more than MAX_RETRIES allows.
handleSystemErrorOnceMore(c, reason) ==
    IF c.retryCountRef <= MAX_RETRIES
    THEN [c EXCEPT !.retryCountRef = @ + 1,
                   !.pendingResultRef = FALSE,
                   !.timeoutRef = FALSE,
                   !.retryTimers = @ + 1]
    ELSE recordResult(c, TestResult(c, FALSE, 0, "SYSTEM_ERR", reason))

handleSystemError(c, reason) ==
    IF c.retryCountRef < MAX_RETRIES
    THEN [c EXCEPT !.retryCountRef = @ + 1,
                   !.pendingResultRef = FALSE,
                   !.timeoutRef = FALSE,
                   !.retryTimers = @ + 1]
    ELSE recordResult(c, TestResult(c, FALSE, 0, "SYSTEM_ERR", reason))

Step(c, op, reason) == [c EXCEPT !.last = [op |-> op, reason |-> reason]]

\* The panel as mounted: nothing runs.
InitAutoTest ==
    /\ InitNobody
    /\ \E isLocalMode \in BOOLEAN :
          calc = [op |-> "autoTest", isLocalMode |-> isLocalMode,
                  isRunningRef |-> FALSE, currentConfigIndex |-> 0,
                  currentTestNumber |-> 0, results |-> <<>>,
                  pendingResultRef |-> FALSE, timeoutRef |-> FALSE,
                  retryCountRef |-> 0, retryTimers |-> 0, awaiting |-> "none",
                  retries |-> 0, last |-> [op |-> "mount", reason |-> ""]]

startTesting ==
    /\ calc.op = "autoTest"
    /\ ~calc.isRunningRef /\ calc.currentTestNumber = 0
    /\ calc' = Step(RunNextEffect([calc EXCEPT !.isRunningRef = TRUE,
                                               !.results = <<>>,
                                               !.currentConfigIndex = 0,
                                               !.currentTestNumber = 1,
                                               !.pendingResultRef = FALSE,
                                               !.retryCountRef = 0]),
                    "startTesting", "")
    /\ UNCHANGED programVars

stopTesting ==
    /\ calc.op = "autoTest"
    /\ calc.isRunningRef
    /\ calc' = Step([calc EXCEPT !.isRunningRef = FALSE,
                                 !.pendingResultRef = FALSE,
                                 !.timeoutRef = FALSE],
                    "stopTesting", "")
    /\ UNCHANGED programVars

\* runRemoteTest after `await onRequestEmit()`: no queueId, or a queueId.
RequestFailed ==
    /\ calc.op = "autoTest"
    /\ calc.awaiting = "remote"
    /\ calc' = IF calc.isRunningRef
               THEN Step(handleSystemError([calc EXCEPT !.awaiting = "none"],
                                           "Request Failed"),
                         "handleSystemError", "Request Failed")
               ELSE Step([calc EXCEPT !.awaiting = "none"], "runRemoteTest", "")
    /\ UNCHANGED programVars

RequestMade ==
    /\ calc.op = "autoTest"
    /\ calc.awaiting = "remote"
    /\ calc' = Step([calc EXCEPT !.awaiting = "none",
                                 !.pendingResultRef = TRUE,
                                 !.timeoutRef = TRUE],
                    "runRemoteTest", "")
    /\ UNCHANGED programVars

\* The 12 s timer of runRemoteTest.
TestTimeout ==
    /\ calc.op = "autoTest"
    /\ calc.timeoutRef
    /\ calc' = IF calc.isRunningRef /\ calc.pendingResultRef
               THEN Step(handleSystemError([calc EXCEPT !.timeoutRef = FALSE],
                                           "Timeout"),
                         "handleSystemError", "Timeout")
               ELSE Step([calc EXCEPT !.timeoutRef = FALSE], "timeout", "")
    /\ UNCHANGED programVars

\* useEffect on myRequest: the request is verified or failed.
TestCompletes ==
    /\ calc.op = "autoTest"
    /\ calc.isRunningRef /\ calc.pendingResultRef
    /\ \E result \in Verdicts(calc) :
          calc' = Step(recordResult(calc, result), "recordResult", "")
    /\ UNCHANGED programVars

\* runLocalTest: the comparison is recorded, or something threw.
LocalTestEnds ==
    /\ calc.op = "autoTest"
    /\ calc.awaiting = "local"
    /\ \/ \E result \in Verdicts(calc) :
             calc' = Step(recordResult([calc EXCEPT !.awaiting = "none"], result),
                          "recordResult", "")
       \/ calc' = Step(handleSystemError([calc EXCEPT !.awaiting = "none"],
                                         "Local test error"),
                       "handleSystemError", "Local test error")
    /\ UNCHANGED programVars

\* setTimeout(() => runSingleTest(), 2000)
RetryFires ==
    /\ calc.op = "autoTest"
    /\ calc.retryTimers > 0
    /\ calc.awaiting = "none"
    /\ calc' = Step(runSingleTest([calc EXCEPT
                        !.retryTimers = @ - 1,
                        !.retries = IF calc.isRunningRef THEN @ + 1 ELSE @]),
                    "retry", "")
    /\ UNCHANGED programVars

NextAutoTest ==
    \/ startTesting
    \/ stopTesting
    \/ RequestFailed
    \/ RequestMade
    \/ TestTimeout
    \/ TestCompletes
    \/ LocalTestEnds
    \/ RetryFires

SpecAutoTest == InitAutoTest /\ [][NextAutoTest]_vars

\* ------------------------------------------------- sessions and their queue
\* A session and the requests made for it.  calc holds: active (the session's
\* flag), db (the 'queue' documents of the session, one per participant),
\* endSession (how far endSession has got: "none", "deactivated", "queried",
\* "completed"), found (the documents its query returned), selectedSession
\* and queueId (what each participant's handleJoinByCode has got so far), and
\* last (the latest call).
NoEntry == [NewEntry EXCEPT !.ex = FALSE]

\* Writes as the callers of updateQueueStatus make them.  The second
\* participant only asks and withdraws.
WriteSample(s) ==
    IF s = 1
    THEN {<<"waiting", NoData>>, <<"ready", NoData>>, <<"listening", NoData>>,
          <<"emitting", [batchId |-> 1,
                         emittedPattern |-> Some(<<"H", "L", "H", "H", "L", "H">>)]>>,
          <<"submitted", NoData>>,
          <<"submitted", [detectedPattern |-> Some(<<"H", "L">>)]>>,
          <<"verified", [matchCount |-> Some(NUM_PULSES), passed |-> Some(TRUE)]>>,
          <<"failed", [matchCount |-> Some(0), passed |-> Some(FALSE)]>>,
          <<"failed", NoData>>}
    ELSE {<<"waiting", NoData>>, <<"ready", NoData>>}

Call(op, s, status, additionalData, outcome) ==
    [op |-> op, id |-> s, status |-> status, additionalData |-> additionalData,
     outcome |-> outcome]

InitSession ==
    /\ InitNobody
    /\ calc = [op |-> "session", active |-> TRUE,
               db |-> [s \in Students |-> NoEntry],
               endSession |-> "none", found |-> {},
               selectedSession |-> [s \in Students |-> FALSE],
               queueId |-> [s \in Students |-> FALSE],
               last |-> Call("none", 0, "", NoData, "")]

\* handleJoinByCode up to `await getSessionByCode(roomCode)`: the session if
\* it is active, null otherwise.
getSessionByCode(s) ==
    /\ calc.op = "session"
    /\ ~calc.selectedSession[s] /\ ~calc.queueId[s]
    /\ calc' = [calc EXCEPT
                   !.selectedSession[s] = calc.active,
                   !.last = Call("getSessionByCode", s, "", NoData,
                                 IF calc.active THEN "session" ELSE "null")]
    /\ UNCHANGED programVars

\* handleJoinByCode from there: joinQueue creates the document.
joinQueue(s) ==
    /\ calc.op = "session"
    /\ calc.selectedSession[s] /\ ~calc.queueId[s]
    /\ calc' = [calc EXCEPT !.db[s] = NewEntry,
                            !.queueId[s] = TRUE,
                            !.last = Call("joinQueue", s, "", NoData, "resolved")]
    /\ UNCHANGED programVars

\* updateQueueStatus on a request whose id is known.
CallUpdateQueueStatus(s) ==
    /\ calc.op = "session"
    /\ calc.queueId[s]
    /\ \E w \in WriteSample(s) :
          calc' = [calc EXCEPT
                      !.db = updateQueueStatus(calc.db, s, w[1], w[2]),
                      !.last = Call("updateQueueStatus", s, w[1], w[2],
                                    updateQueueStatusSettles(calc.db, s))]
    /\ UNCHANGED programVars

\* endSession: updateDoc(sessionRef, {active: false}),
EndSessionDeactivates ==
    /\ calc.op = "session"
    /\ calc.endSession = "none"
    /\ calc' = [calc EXCEPT !.active = FALSE, !.endSession = "deactivated",
                            !.last = Call("endSession", 0, "", NoData, "")]
    /\ UNCHANGED programVars

\* getDocs of the session's queue entries,
EndSessionQueries ==
    /\ calc.op = "session"
    /\ calc.endSession = "deactivated"
    /\ calc' = [calc EXCEPT !.found = {s \in Students : calc.db[s].ex},
                            !.endSession = "queried",
                            !.last = Call("endSession", 0, "", NoData, "")]
    /\ UNCHANGED programVars

\* and deleteDoc of every document found.
EndSessionDeletes ==
    /\ calc.op = "session"
    /\ calc.endSession = "queried"
    /\ calc' = [calc EXCEPT
                   !.db = [s \in Students |->
                              IF s \in calc.found THEN NoEntry ELSE calc.db[s]],
                   !.endSession = "completed",
                   !.last = Call("endSession", 0, "", NoData, "resolved")]
    /\ UNCHANGED programVars

NextSession ==
    \/ \E s \in Students :
          getSessionByCode(s) \/ joinQueue(s) \/ CallUpdateQueueStatus(s)
    \/ EndSessionDeactivates
    \/ EndSessionQueries
    \/ EndSessionDeletes

SpecSession == InitSession /\ [][NextSession]_vars

\* ------------------------------------------------------------- the emitter
\* UltrasonicEmitter.emit.  Times are in ms, counted from ctx.currentTime at
\* the call (the code keeps seconds: 0.01, 0.16, pulseDuration / 1000).

\* schedulePulse: the envelope runs from startTime to endTime, the oscillator
\* is stopped 10 ms later.
schedulePulse(freq, durationMs, startTime) ==
    [freq |-> freq, startTime |-> startTime, endTime |-> startTime + durationMs,
     stop |-> startTime + durationMs + 10]

\* The loop of emit from pulse i (from 1) on, scheduleTime being where the
\* loop has got.
RECURSIVE ScheduleLoop(_, _, _, _)
ScheduleLoop(pattern, c, i, scheduleTime) ==
    IF i > Len(pattern) THEN <<>>
    ELSE <<schedulePulse(IF pattern[i] = "H" THEN c.freqHigh ELSE c.freqLow,
                         c.pulseDuration, scheduleTime)>>
         \o ScheduleLoop(pattern, c, i + 1,
                         scheduleTime + c.pulseDuration
                            + (IF i < Len(pattern) THEN c.pulseGap ELSE 0))

\* baseTime = ctx.currentTime + 0.01; the warm-up pulse of 40 ms at 17500 Hz.
WarmupPulse == schedulePulse(17500, 40, 10)

\* The pulses emit schedules after the warm-up: scheduleTime += 0.16.
ScheduledPulses(pattern, c) ==
    ScheduleLoop(pattern, c, 1, WarmupPulse.startTime + 160)

\* A wait that leaves out the warm-up time and sleep's 50 ms buffer.
totalDurationMsPulsesOnly(pattern, c) ==
    c.pulseDuration * Len(pattern) + c.pulseGap * (Len(pattern) - 1) - 50

totalDurationMs(pattern, c) ==
    160 + c.pulseDuration * Len(pattern) + c.pulseGap * (Len(pattern) - 1)

\* Configs to emit with: pulses shorter than the fades, gaps down to none.
EmitConfigs ==
    {[DEFAULT_CONFIG EXCEPT !.pulseDuration = d, !.pulseGap = g] :
        d \in {1, 15, 100}, g \in {0, 5, 80}}

\* emit(pattern, config) is called with a non-empty pattern.  The scheduling
\* takes `elapsed` ms, and the timer of sleep() fires `late` ms after its
\* delay (a timer never fires early).
InitEmit ==
    /\ InitNobody
    /\ calc \in [op : {"emit"},
                 pattern : (PatternsUpTo(MaxPulses) \ {<<>>}) \cup PatternSample,
                 config : EmitConfigs,
                 elapsed : {0, 5}, late : {0, 30},
                 pulses : {<<>>}, sleeping : {FALSE}, resolved : {FALSE},
                 resolvedAt : {0}]

\* emit up to `await this.sleep(totalDurationMs + 50)`.
EmitSchedules ==
    /\ calc.op = "emit"
    /\ ~calc.sleeping /\ ~calc.resolved
    /\ calc' = [calc EXCEPT !.pulses = ScheduledPulses(calc.pattern, calc.config),
                            !.sleeping = TRUE]
    /\ UNCHANGED programVars

EmitReturns ==
    /\ calc.op = "emit"
    /\ calc.sleeping
    /\ calc' = [calc EXCEPT
                   !.sleeping = FALSE,
                   !.resolved = TRUE,
                   !.resolvedAt = calc.elapsed
                                    + totalDurationMs(calc.pattern, calc.config)
                                    + 50 + calc.late]
    /\ UNCHANGED programVars

SpecEmit == InitEmit /\ [][EmitSchedules \/ EmitReturns]_vars

\* -------------------------------------------- auto-test: the remote test's config
\* StudentView with its AutoTestPanel in remote mode, and the coordinator's
\* emission for its request.  calc holds: config (StudentView's config
\* state, the panel's baseConfig), selectedSession, entry (the participant's
\* queue document with its config field), selectedVolumes and
\* useOutputFilter (the panel's choices), isRunning, currentConfigIndex (from
\* 0), currentTestNumber (from 1), stage (where the current test is: "idle",
\* "delay" in runRemoteTest's 100 ms wait, "pending" with the request made,
\* "done"), test (pendingResultRef: what the pending test selected) and
\* emitted (the config of the emit made for the pending request).
VOLUME_PRESETS == {100, 75, 50, 25, 0}

\* Selections of up to n volumes, in the order they were ticked.
RECURSIVE VolumeSelections(_)
VolumeSelections(n) ==
    IF n = 0 THEN {<<>>}
    ELSE VolumeSelections(n - 1)
            \cup {Append(sel, v) : sel \in {x \in VolumeSelections(n - 1) : Len(x) = n - 1},
                                   v \in VOLUME_PRESETS}

\* emit's `config.useOutputFilter !== false`
useFilter(c) == c.useOutputFilter # "false"

\* runRemoteTest up to its first await: onConfigChange({...baseConfig, volume,
\* useOutputFilter}).
runRemoteTest(c) ==
    [c EXCEPT !.config = [c.config EXCEPT
                            !.volume = c.selectedVolumes[c.currentConfigIndex + 1],
                            !.useOutputFilter = IF c.useOutputFilter
                                                THEN "true" ELSE "false"],
              !.stage = "delay"]

InitRemote ==
    /\ InitNobody
    /\ \E selectedVolumes \in {sel \in VolumeSelections(NumVolumes) :
                                 /\ sel # <<>>
                                 /\ \A j, k \in 1..Len(sel) : j # k => sel[j] # sel[k]},
          useOutputFilter \in BOOLEAN :
          calc = [op |-> "remoteTest", config |-> DEFAULT_CONFIG,
                  selectedSession |-> FALSE,
                  entry |-> [ex |-> FALSE, status |-> "waiting",
                             config |-> DEFAULT_CONFIG],
                  selectedVolumes |-> selectedVolumes,
                  useOutputFilter |-> useOutputFilter,
                  isRunning |-> FALSE, currentConfigIndex |-> 0,
                  currentTestNumber |-> 0, stage |-> "idle",
                  test |-> None, emitted |-> None]

\* handleJoinByCode: joinQueue creates the document with the config state.
JoinByCode ==
    /\ calc.op = "remoteTest"
    /\ ~calc.selectedSession
    /\ calc' = [calc EXCEPT !.selectedSession = TRUE,
                            !.entry = [ex |-> TRUE, status |-> "waiting",
                                       config |-> calc.config]]
    /\ UNCHANGED programVars

\* startTesting in remote mode, and the first test's runRemoteTest.
StartRemoteTesting ==
    /\ calc.op = "remoteTest"
    /\ calc.selectedSession
    /\ ~calc.isRunning /\ calc.stage = "idle"
    /\ calc' = runRemoteTest([calc EXCEPT !.isRunning = TRUE,
                                          !.currentConfigIndex = 0,
                                          !.currentTestNumber = 1])
    /\ UNCHANGED programVars

\* runRemoteTest after its wait: onRequestEmit() is handleRequestEmit, which
\* writes status ready, and the pending test is noted.
RemoteRequestEmit ==
    /\ calc.op = "remoteTest"
    /\ calc.stage = "delay"
    /\ calc' = [calc EXCEPT
                  !.entry = [@ EXCEPT !.status = "ready"],
                  !.stage = "pending",
                  !.test = Some([volume |-> calc.selectedVolumes[calc.currentConfigIndex + 1],
                                 useOutputFilter |-> calc.useOutputFilter]),
                  !.emitted = None]
    /\ UNCHANGED programVars

\* The coordinator's processBatch for the request: students[0].config is
\* the document's config, and emit(pattern, config) is called with it.
RemoteBatchEmits ==
    /\ calc.op = "remoteTest"
    /\ calc.entry.ex /\ calc.entry.status = "ready"
    /\ calc' = [calc EXCEPT !.entry = [@ EXCEPT !.status = "emitting"],
                            !.emitted = Some(calc.entry.config)]
    /\ UNCHANGED programVars

\* The verdict arrives: recordResult, and the next test's runRemoteTest.
RemoteTestCompletes ==
    /\ calc.op = "remoteTest"
    /\ calc.stage = "pending" /\ calc.entry.status = "emitting"
    /\ LET recorded == [calc EXCEPT !.entry = [@ EXCEPT !.status = "verified"],
                                    !.test = None, !.emitted = None]
       IN  calc' = IF calc.currentTestNumber < TestsPerConfig
                   THEN runRemoteTest([recorded EXCEPT !.currentTestNumber = @ + 1])
                   ELSE IF calc.currentConfigIndex + 1 < Len(calc.selectedVolumes)
                   THEN runRemoteTest([recorded EXCEPT !.currentConfigIndex = @ + 1,
                                                       !.currentTestNumber = 1])
                   ELSE [recorded EXCEPT !.isRunning = FALSE, !.stage = "done"]
    /\ UNCHANGED programVars

SpecRemote ==
    InitRemote /\ [][JoinByCode \/ StartRemoteTesting \/ RemoteRequestEmit
                       \/ RemoteBatchEmits \/ RemoteTestCompletes]_vars

\* ==================================================================== claims

\* The edges of the request state machine.
StatusEdges ==
    {<<"waiting", "ready">>, <<"ready", "emitting">>, <<"emitting", "listening">>,
     <<"listening", "submitted">>, <<"submitted", "verified">>,
     <<"submitted", "failed">>}

\* C1: every change of a request's status in the store follows an edge of
\* waiting -> ready -> emitting -> listening -> submitted -> {verified | failed},
\* or is a reset to waiting.
C1_StatusFollowsGraph ==
    [][\A s \in Students :
          (store[s].ex /\ store'[s].ex /\ store'[s].status # store[s].status)
              => \/ <<store[s].status, store'[s].status>> \in StatusEdges
                 \/ store'[s].status = "waiting"]_vars

\* A handler of participant s is in flight, or a notification is on its way.
InFlight(s) ==
    \/ sDirty[s]
    \/ student[s].hRequest # "none"
    \/ student[s].hSubmit # "none"
    \/ student[s].hListen
    \/ student[s].listenerRef = "initing"
    \/ student[s].orphans > 0

\* C2: once the request of a participant is deleted and its handlers have run
\* to the end, the participant is idle, has no queue id, no response or ready
\* timer, and its listener is released.
C2_DeletedEndsIdle ==
    \A s \in Students :
        (~store[s].ex /\ ~InFlight(s))
            => /\ student[s].status = "idle"
               /\ ~student[s].queueId
               /\ ~student[s].responseTimeoutRef
               /\ ~student[s].readyTimeoutRef
               /\ Released(student[s])

\* processBatch of execution i ends in this step.
BatchEnding(i) ==
    /\ pq[i].pc # "idle"
    /\ pq'[i].pc = "idle" \/ pq'[i].batchId # pq[i].batchId

\* C5: every processBatch ends by returning after it has emitted and set its
\* participants to submitted.
C5_BatchEmitsAndReturns ==
    [][\A i \in 1..MaxPQ :
          BatchEnding(i) => /\ pq[i].pc = "submitted_written"
                            /\ pq[i].emitted
                            /\ ~pq[i].rejected]_vars

\* C7: verifyStudent is dispatched at most once for a submission.
C7_VerifiedOnce == \A s \in Students : round[s].verifies <= 1

\* C7 witness: a submission was verified and verifyStudent has completed.
C7_Witness ==
    \E s \in Students :
        /\ round[s].verifies = 1
        /\ ~IsSome(verifyingRef[s])
        /\ store[s].ex
        /\ store[s].status \in {"verified", "failed"}
        /\ IsSome(store[s].matchCount)

\* C8: in one round a participant stops recording at most once and writes its
\* detectedPattern at most once.
C8_SubmitsOnce ==
    \A s \in Students : round[s].stops <= 1 /\ round[s].writes <= 1

\* C8 witness: the participant has written its detection and has handled the
\* notification its own write caused.
C8_Witness ==
    \E s \in Students :
        /\ round[s].writes = 1
        /\ round[s].stops = 1
        /\ Submission(store[s])
        /\ ~sDirty[s]
        /\ student[s].hasSubmittedRef
        /\ student[s].hSubmit = "none"

\* C10: when the response timer expires the participant releases its
\* listener, writes waiting to its request and is idle.
C10_TimeoutResets ==
    [][\A s \in Students :
          (student[s].responseTimeoutRef /\ ResponseTimeout(s))
              => /\ student'[s].status = "idle"
                 /\ Released(student'[s])
                 /\ store[s].ex => store'[s].status = "waiting"]_vars

\* The request of s carries a verdict of the Verifier.
Verdict(s) ==
    /\ store[s].ex
    /\ store[s].status \in {"verified", "failed"}
    /\ IsSome(store[s].matchCount)
    /\ IsSome(store[s].passed)

\* C9: a request that was submitted with a non-empty detectedPattern ends
\* verified or failed with matchCount and passed recorded: it is not failed
\* without them once no verification is pending for it.
C9_SubmissionGetsVerdict ==
    \A s \in Students :
        (/\ store[s].ex
         /\ store[s].status = "failed"
         /\ IsSome(store[s].detectedPattern)
         /\ Len(Val(store[s].detectedPattern)) > 0
         /\ ~IsSome(verifyingRef[s]))
            => Verdict(s)

\* C3: at no time are two processQueue executions in progress.
C3_OneProcessQueue == Cardinality(Running) <= 1

\* C4: emit is invoked for a batch only after every participant of the batch
\* was seen listening in the queue view or the handshake timeout has elapsed.
C4_EmitAfterHandshake ==
    [][\A i \in 1..MaxPQ :
          EmitStarts(i) => pq[i].seenAll \/ pq[i].timedOut]_vars

\* C4 witness: emit was invoked for a batch of two participants, one of them
\* seen listening, after the timeout.
C4_Witness ==
    \E i \in 1..MaxPQ :
        /\ pq[i].pc = "emit"
        /\ Cardinality(Head(pq[i].groups)) = 2
        /\ pq[i].timedOut
        /\ \E s \in Head(pq[i].groups) : queue[s].ex /\ queue[s].status = "listening"

\* The debounce timer that was set with generation g fires.
DebounceInstance(g) ==
    /\ IsSome(processTimeoutRef)
    /\ Val(processTimeoutRef).gen = g
    /\ DebounceFires

\* The coordinator's tab runs: snapshots are delivered, renders happen, a timer
\* that stays set fires, awaited writes and the emission settle.
TeacherFairness ==
    /\ WF_vars(QueueSnapshot)
    /\ WF_vars(Render)
    /\ WF_vars(DebounceInstance(0))
    /\ WF_vars(DebounceInstance(1))
    /\ \A i \in 1..MaxPQ :
          /\ WF_vars(AfterEmittingWrites(i))
          /\ WF_vars(HandshakePoll(i))
          /\ WF_vars(EmitStarts(i))
          /\ WF_vars(EmitResolves(i))
          /\ WF_vars(SignalSubmit(i))
          /\ WF_vars(AfterSubmittedWrites(i))
          /\ WF_vars(AfterFailedWrites(i))
    /\ \A s \in Students : WF_vars(VerifyLands(s))

FairSpec == Spec /\ TeacherFairness

\* C6: a request that is ready does not stay ready for ever: it is set to
\* emitting (or its participant takes it back, or it is deleted).
C6_ReadyIsServed ==
    \A s \in Students :
        (store[s].ex /\ store[s].status = "ready")
            ~> (~store[s].ex \/ store[s].status # "ready")


\* The participant holds a listener: an object in listenerRef, a recording, or
\* a microphone stream that was acquired and not stopped.
HoldsListener(st) ==
    \/ st.listenerRef # "null"
    \/ st.isRecording
    \/ st.leaked

\* C11: while its request is waiting or ready a participant holds no listener.
C11_NoListenerBeforeEmitting ==
    \A s \in Students :
        (store[s].ex /\ store[s].status \in {"waiting", "ready"})
            => ~HoldsListener(student[s])


\* C12: a participant writes status listening only when its listener has
\* finished init() and isRecording is true at the time of the write.
C12_ListeningMeansRecording ==
    [][\A s \in Students :
          (store'[s].ex /\ store'[s].status = "listening"
                        /\ store[s].status # "listening")
              => /\ student'[s].listenerRef \in {"ready", "deaf"}
                 /\ student'[s].isRecording]_vars


\* The participants of the batches a processQueue execution has still to run.
Batched(i) == UNION {pq[i].groups[k] : k \in 1..Len(pq[i].groups)}

SameBatch(i, s, t) ==
    \E k \in 1..Len(pq[i].groups) : s \in pq[i].groups[k] /\ t \in pq[i].groups[k]

\* C13: in one processing round two participants are in the same batch exactly
\* when all fields of their configs are equal.
C13_BatchedByConfig ==
    \A i \in 1..MaxPQ :
        pq[i].pc # "idle" =>
            \A s \in Batched(i), t \in Batched(i) :
                SameBatch(i, s, t) <=> config[s] = config[t]

\* C13 witness: a round with two batches for two participants whose configs
\* differ in filterCutoff only.
C13_Witness ==
    \E i \in 1..MaxPQ :
        /\ pq[i].pc = "emitting_written"
        /\ Len(pq[i].groups) = 2
        /\ config[1] = DEFAULT_CONFIG
        /\ config[2] = [DEFAULT_CONFIG EXCEPT !.filterCutoff = Some(15000)]


\* C14: comparePatterns returns passed = true exactly when
\* matchCount >= NUM_PULSES - 1.
C14_PassedIffThreshold ==
    (calc.op = "comparePatterns" /\ calc.returned)
        => (calc.result.passed <=> calc.result.matchCount >= NUM_PULSES - 1)

\* C14 witness: five of six pulses matched among seven detections: passed.
C14_Witness ==
    /\ calc.op = "comparePatterns" /\ calc.returned
    /\ Len(calc.emitted) = NUM_PULSES
    /\ Len(calc.detected) = NUM_PULSES + 1
    /\ calc.result.matchCount = NUM_PULSES - 1
    /\ calc.result.passed

\* detected with its i-th element left out.
Without(seq, i) == [k \in 1..(Len(seq) - 1) |-> IF k < i THEN seq[k] ELSE seq[k + 1]]

\* C15: a detected sequence that is the emitted pattern of length NUM_PULSES
\* with exactly one symbol missing, at any position, passes.
C15_OneMissedPasses ==
    (/\ calc.op = "comparePatterns" /\ calc.returned
     /\ Len(calc.emitted) = NUM_PULSES
     /\ \E i \in 1..NUM_PULSES : calc.detected = Without(calc.emitted, i))
        => calc.result.passed

\* emitted is a subsequence of detected.
RECURSIVE IsSubsequence(_, _)
IsSubsequence(e, d) ==
    IF e = <<>> THEN TRUE
    ELSE IF d = <<>> THEN FALSE
    ELSE \/ Head(e) = Head(d) /\ IsSubsequence(Tail(e), Tail(d))
         \/ IsSubsequence(e, Tail(d))

\* C16: if emitted is a subsequence of detected then matchCount = len(emitted),
\* and passed = true when len(emitted) = NUM_PULSES.
C16_SubsequenceFullyMatched ==
    (/\ calc.op = "comparePatterns" /\ calc.returned
     /\ IsSubsequence(calc.emitted, calc.detected))
        => /\ calc.result.matchCount = Len(calc.emitted)
           /\ Len(calc.emitted) = NUM_PULSES => calc.result.passed

\* C16 witness: the emitted pattern with a spurious detection in front of it.
C16_Witness ==
    /\ calc.op = "comparePatterns" /\ calc.returned
    /\ Len(calc.emitted) = NUM_PULSES
    /\ Len(calc.detected) = NUM_PULSES + 1
    /\ Tail(calc.detected) = calc.emitted
    /\ Head(calc.detected) # Head(calc.emitted)
    /\ calc.result.matchCount = NUM_PULSES

\* C17: 0 <= matchCount <= min(len(emitted), len(detected)); no detection
\* gives matchCount 0 and passed false.
C17_MatchCountBounded ==
    (calc.op = "comparePatterns" /\ calc.returned)
        => /\ calc.result.matchCount >= 0
           /\ calc.result.matchCount <= Len(calc.emitted)
           /\ calc.result.matchCount <= Len(calc.detected)
           /\ calc.detected = <<>>
                 => calc.result.matchCount = 0 /\ ~calc.result.passed

\* C17 witness: more detections than pulses, all of one kind.
C17_Witness ==
    /\ calc.op = "comparePatterns" /\ calc.returned
    /\ calc.emitted = <<"H", "H">>
    /\ calc.detected = <<"H", "H", "H", "H">>
    /\ calc.result.matchCount = 2

\* C18: once every emitted symbol is matched, detections appended to the end
\* change neither matchCount nor passed.
C18_SuffixIgnored ==
    (/\ calc.op = "comparePatterns" /\ calc.returned
     /\ calc.result.matchCount = Len(calc.emitted))
        => calc.extended = calc.result

\* C18 witness: a full match followed by two more detections.
C18_Witness ==
    /\ calc.op = "comparePatterns" /\ calc.returned
    /\ Len(calc.emitted) = NUM_PULSES
    /\ calc.result.matchCount = NUM_PULSES
    /\ Len(calc.suffix) = 2
    /\ calc.suffix[1] = calc.emitted[NUM_PULSES]


\* C19: a frame whose accepted detection is within PEAK_MERGE_FREQ_HZ and
\* PEAK_MERGE_TIME_MS of a retained peak adds no peak: the first such peak
\* keeps the larger of the two amplitudes, takes the detection's frequency,
\* timestamp, type and snr if the detection is strictly stronger, and is left
\* as it was otherwise.
C19_MergedPeakKeepsStronger ==
    [][(/\ calc.op = "analyzeLoop"
        /\ calc'.last.accepted
        /\ FindExisting(calc.peaks, calc'.last.frequency, calc'.last.now) # 0)
          => LET d == calc'.last
                 k == FindExisting(calc.peaks, d.frequency, d.now)
                 old == calc.peaks[k]
             IN  /\ Len(calc'.peaks) = Len(calc.peaks)
                 /\ calc'.peaks[k].amplitude
                       = IF d.amplitude > old.amplitude
                         THEN d.amplitude ELSE old.amplitude
                 /\ d.amplitude > old.amplitude
                       => calc'.peaks[k]
                             = DetectedPeak(d.frequency, d.amplitude, d.now)
                 /\ d.amplitude <= old.amplitude => calc'.peaks[k] = old]_vars

\* C19 witness: two accepted detections, the second the stronger, one peak.
C19_Witness ==
    /\ calc.op = "analyzeLoop"
    /\ calc.accepted = 2
    /\ Len(calc.peaks) = 1
    /\ calc.last.accepted
    /\ calc.peaks[1].timestamp = calc.last.now
    /\ calc.peaks[1].amplitude = 0 - 40
    /\ calc.peaks[1].frequency = 17700


\* C20: stopAndAnalyze returns at most MAX_PEAKS peaks; with more than
\* MAX_PEAKS retained it returns MAX_PEAKS of them and no discarded peak is
\* strictly stronger than a returned one; otherwise it returns all of them.
C20_StrongestPeaksKept ==
    (calc.op = "stopAndAnalyze" /\ calc.returned)
        => /\ Len(calc.result) <= MAX_PEAKS
           /\ Range(calc.result) \subseteq Range(calc.peaks)
           /\ Cardinality(Range(calc.result)) = Len(calc.result)
           /\ Len(calc.peaks) <= MAX_PEAKS
                 => Range(calc.result) = Range(calc.peaks)
           /\ Len(calc.peaks) > MAX_PEAKS
                 => /\ Len(calc.result) = MAX_PEAKS
                    /\ \A d \in Range(calc.peaks) \ Range(calc.result) :
                          \A r \in Range(calc.result) :
                              d.amplitude <= r.amplitude

\* C20 witness: MAX_PEAKS + 2 peaks retained, the last one of them strong: it
\* is returned and two others are not.
C20_Witness ==
    /\ calc.op = "stopAndAnalyze" /\ calc.returned
    /\ Len(calc.peaks) = MAX_PEAKS + 2
    /\ Len(calc.result) = MAX_PEAKS
    /\ calc.peaks[MAX_PEAKS + 2].amplitude = 0 - 30
    /\ calc.peaks[MAX_PEAKS + 2] \in Range(calc.result)



\* C21: the peaks stopAndAnalyze returns are in non-decreasing timestamp
\* order, whatever order the retained peaks were in and whether or not the
\* capping step sorted them by amplitude.
C21_ReturnedChronological ==
    (calc.op = "stopAndAnalyze" /\ calc.returned)
        => \A i \in 1..Len(calc.result), j \in 1..Len(calc.result) :
              i < j => calc.result[i].timestamp <= calc.result[j].timestamp

\* C21 witness: more than MAX_PEAKS peaks retained in reverse time order, the
\* strongest of them the latest in the array; the capped result is returned.
C21_Witness ==
    /\ calc.op = "stopAndAnalyze" /\ calc.returned
    /\ Len(calc.peaks) > MAX_PEAKS
    /\ calc.peaks[1].timestamp > calc.peaks[2].timestamp
    /\ calc.peaks[Len(calc.peaks)].amplitude = 0 - 30
    /\ Len(calc.result) = MAX_PEAKS
    /\ calc.result[1] = calc.peaks[Len(calc.peaks)]



\* C22: a frame of analyzeLoop never lowers the noise-floor estimate: it
\* leaves it alone unless the frame's median exceeds it and then sets it to
\* 0.9 * old + 0.1 * median; clearPeaks, and startRecording on a stopped
\* listener, set it to -100; nothing else changes it.
C22_NoiseFloorAdaptsUpward ==
    [][calc.op = "noiseFloor"
        => /\ calc'.last = "analyzeLoop"
                => /\ calc'.noiseFloor >= calc.noiseFloor
                   /\ calc'.noiseFloor
                         = IF calc'.median > calc.noiseFloor
                           THEN (9 * calc.noiseFloor + calc'.median) \div 10
                           ELSE calc.noiseFloor
           /\ (\/ calc'.last = "clearPeaks"
               \/ calc'.last = "startRecording" /\ ~calc.isRecording)
                => calc'.noiseFloor = ToFixed(0 - 100)
           /\ (\/ calc'.last = "stopAndAnalyze"
               \/ calc'.last = "startRecording" /\ calc.isRecording)
                => calc'.noiseFloor = calc.noiseFloor]_vars

\* C22 witness: the estimate was raised by three successive frames and the
\* latest frame's median is below it.
C22_Witness ==
    /\ calc.op = "noiseFloor"
    /\ calc.frames = 4
    /\ calc.last = "analyzeLoop"
    /\ calc.noiseFloor > ToFixed(0 - 90)
    /\ calc.median = ToFixed(0 - 120)



\* C23: every retained peak has type H or L, an H peak lies within
\* FREQ_TOLERANCE of FREQ_HIGH and an L peak within FREQ_TOLERANCE of
\* FREQ_LOW; a frame whose strongest bin is outside both bands, or whose SNR
\* is below the threshold, leaves the retained peaks as they were.
C23_OnlyCarrierPeaksRetained ==
    [][calc.op = "analyzeLoop"
        => /\ \A k \in 1..Len(calc'.peaks) :
                 LET p == calc'.peaks[k]
                 IN  /\ p.type \in {"H", "L"}
                     /\ p.type = "H"
                           => Abs(p.frequency - FREQ_HIGH) <= FREQ_TOLERANCE
                     /\ p.type = "L"
                           => Abs(p.frequency - FREQ_LOW) <= FREQ_TOLERANCE
           /\ (\/ /\ Abs(calc'.last.frequency - FREQ_HIGH) > FREQ_TOLERANCE
                  /\ Abs(calc'.last.frequency - FREQ_LOW) > FREQ_TOLERANCE
               \/ ~PassesThreshold(calc'.last.amplitude - NoiseFloor))
                 => calc'.peaks = calc.peaks]_vars

\* C23 witness: an L peak and an H peak at the edge of its band are retained,
\* and the latest frame, strong but between the bands, was discarded.
C23_Witness ==
    /\ calc.op = "analyzeLoop"
    /\ Len(calc.peaks) = 2
    /\ calc.peaks[1].type = "L"
    /\ calc.peaks[2].type = "H"
    /\ calc.peaks[2].frequency = FREQ_HIGH - FREQ_TOLERANCE
    /\ calc.frames = 3
    /\ calc.last.frequency = 18250
    /\ calc.last.amplitude = 0 - 40
    /\ calc.last.now - calc.peaks[2].timestamp < PEAK_MERGE_TIME_MS



\* C24: generatePattern(n) returns exactly n symbols, each of them H or L, and
\* every emittedPattern written to a request has NUM_PULSES symbols, each of
\* them H or L.
C24_PatternIsNPulses ==
    /\ (calc.op = "generatePattern" /\ calc.returned)
          => /\ Len(calc.result) = calc.length
             /\ \A k \in 1..Len(calc.result) : calc.result[k] \in {"H", "L"}
    /\ \A s \in Students :
          IsSome(store[s].emittedPattern)
             => /\ Len(Val(store[s].emittedPattern)) = NUM_PULSES
                /\ \A k \in 1..NUM_PULSES :
                      Val(store[s].emittedPattern)[k] \in {"H", "L"}

\* C24 witness: the coordinator has written the pattern of a batch to a
\* request that is now emitting.
C24_Witness ==
    /\ store[1].ex
    /\ store[1].status = "emitting"
    /\ IsSome(store[1].emittedPattern)
    /\ Val(store[1].emittedPattern) \in generatePattern(NUM_PULSES)



C26_ReadyTimerOnlyWhileReady ==
    [][\A s \in Students :
          (/\ student[s].readyTimeoutRef
           /\ student'[s] = [student[s] EXCEPT !.readyTimeoutRef = FALSE,
                                               !.status = "error"]
           /\ ~sDirty[s]
           /\ store[s].ex)
             => store[s].status = "ready"]_vars



\* C27: when endSession completes, the session is inactive and no request of
\* the session is left in the store, whatever the participants did while it
\* ran; and a status write to a request that has been deleted is rejected and
\* does not bring the document back.
C27_EndSessionLeavesNoRequest ==
    [][calc.op = "session"
        => /\ (calc.endSession # "completed" /\ calc'.endSession = "completed")
                 => /\ ~calc'.active
                    /\ \A s \in Students : ~calc'.db[s].ex
           /\ (/\ calc'.last.op = "updateQueueStatus"
               /\ ~calc.db[calc'.last.id].ex)
                 => /\ calc'.last.outcome = "rejected"
                    /\ ~calc'.db[calc'.last.id].ex]_vars

\* C28: a call of updateQueueStatus on a document the store rejects the update
\* of is rejected towards the caller and changes nothing; otherwise it
\* resolves, the document has the given status and additional fields,
\* verifiedAt is set by the call exactly when the status is verified or
\* failed, and its other fields and the other documents are as before.
C28_UpdateRejectsOrWrites ==
    [][(calc.op = "session" /\ calc'.last.op = "updateQueueStatus")
        => LET c == calc'.last
               old == calc.db[c.id]
               new == calc'.db[c.id]
               written == DOMAIN c.additionalData \cup {"status"}
                             \cup (IF c.status \in {"verified", "failed"}
                                   THEN {"verifiedAt"} ELSE {})
           IN  /\ \A s \in Students \ {c.id} : calc'.db[s] = calc.db[s]
               /\ IF ~old.ex
                  THEN c.outcome = "rejected" /\ new = old
                  ELSE /\ c.outcome = "resolved"
                       /\ new.ex
                       /\ new.status = c.status
                       /\ \A f \in DOMAIN c.additionalData :
                             new[f] = c.additionalData[f]
                       /\ c.status \in {"verified", "failed"} => new.verifiedAt
                       /\ \A f \in DOMAIN old \ written : new[f] = old[f]]_vars

\* C28 witness: endSession has deleted the first request, a write of verified
\* to it was rejected, and the request of a participant that joined
\* meanwhile took a write of ready.
C28_Witness ==
    /\ calc.op = "session"
    /\ calc.endSession = "completed"
    /\ calc.last.op = "updateQueueStatus"
    /\ calc.last.id = 1
    /\ calc.last.status = "verified"
    /\ calc.last.outcome = "rejected"
    /\ ~calc.db[1].ex
    /\ calc.db[2].ex
    /\ calc.db[2].status = "ready"



\* C29: emit schedules one pulse per symbol, pulse i (from 0) starting
\* 160 ms + i * (pulseDuration + pulseGap) after the warm-up pulse's start and
\* lasting pulseDuration; no pulse starts before the one before it (the
\* warm-up pulse included) has ended; and emit resolves no earlier than the
\* end of the last pulse.
C29_PulsesScheduledApart ==
    (calc.op = "emit" /\ (calc.sleeping \/ calc.resolved))
        => LET n == Len(calc.pattern)
               D == calc.config.pulseDuration
               G == calc.config.pulseGap
               base == WarmupPulse.startTime
           IN  /\ Len(calc.pulses) = n
               /\ \A k \in 1..n :
                     /\ calc.pulses[k].startTime = base + 160 + (k - 1) * (D + G)
                     /\ calc.pulses[k].endTime = calc.pulses[k].startTime + D
                     /\ calc.pulses[k].freq
                           = IF calc.pattern[k] = "H" THEN calc.config.freqHigh
                             ELSE calc.config.freqLow
               /\ WarmupPulse.endTime <= calc.pulses[1].startTime
               /\ \A j \in 1..n, k \in 1..n :
                     j < k => calc.pulses[j].endTime <= calc.pulses[k].startTime
               /\ calc.resolved => calc.resolvedAt >= calc.pulses[n].endTime

\* C29 witness: NUM_PULSES pulses without a gap were scheduled, and emit
\* resolved with the scheduling having taken no time and the timer on time.
C29_Witness ==
    /\ calc.op = "emit"
    /\ calc.resolved
    /\ Len(calc.pulses) = NUM_PULSES
    /\ calc.config.pulseGap = 0
    /\ calc.pulses[2].startTime = calc.pulses[1].endTime
    /\ calc.elapsed = 0 /\ calc.late = 0
    /\ calc.resolvedAt > calc.pulses[NUM_PULSES].endTime



\* C30: the verdict of a round is computed from a detectedPattern written in
\* that round: while verifyStudent is at work on a request, the participant
\* has written its detectedPattern since the coordinator wrote the round's
\* emittedPattern.
C30_VerdictFromThisRound ==
    \A s \in Students : IsSome(verifyingRef[s]) => round[s].writes >= 1




\* C31: the coordinator writes emitting (a new batchId and emittedPattern) to
\* a request only if the request is ready in the store at the time of the
\* write: a request that was cancelled, reset to waiting or deleted after the
\* list of ready participants was taken is not moved to emitting.
C31_EmittingOnlyOverReady ==
    [][\A s \in Students :
          (store'[s].ex /\ store'[s].batchId # store[s].batchId)
              => /\ store'[s].status = "emitting"
                 /\ store[s].ex
                 /\ store[s].status = "ready"]_vars




\* C32: once a participant has observed the verdict (verified or failed) of
\* its request, no response timer of that round is armed: none is left armed,
\* none is armed afterwards, so none can fire while the verdict stands.
C32_NoResponseTimerAfterVerdict ==
    \A s \in Students :
        (/\ student[s].queueId
         /\ store[s].ex
         /\ store[s].status \in {"verified", "failed"}
         /\ ~sDirty[s])
            => ~student[s].responseTimeoutRef




\* C33: a participant's write of listening does not land after the
\* coordinator's write of submitted for the same round: no step takes a
\* request from submitted back to listening.
C33_ListeningNotAfterSubmitted ==
    [][\A s \in Students :
          (store[s].ex /\ store[s].status = "submitted")
              => ~(/\ store'[s].ex
                   /\ store'[s].status = "listening"
                   /\ store'[s].batchId = store[s].batchId)]_vars




\* C34: the deletion of one participant's request while it belongs to a batch
\* does not change the outcome of the others: a request that is still there
\* is failed only by a verdict computed from its own detection (matchCount
\* and passed recorded), never by the batch being given up.
C34_DeletionSparesOthers ==
    \A s \in Students :
        (store[s].ex /\ store[s].status = "failed") => Verdict(s)




\* C35: a participant that submitted a detectedPattern, the empty one
\* included, gets a verdict: once the coordinator's queue view shows the
\* request as it is in the store, submitted with its detectedPattern, a
\* verification of it is under way.
C35_EmptyDetectionGetsVerdict ==
    \A s \in Students :
        (/\ queue[s] = store[s]
         /\ queue[s].ex
         /\ queue[s].status = "submitted"
         /\ IsSome(queue[s].detectedPattern))
            => IsSome(verifyingRef[s])




\* processBatch of execution i begins in this step.
BatchBeginning(i) == pq'[i].batchId # pq[i].batchId /\ pq'[i].pc # "idle"

\* C36: for each batch emit is invoked exactly once (never a second time, and
\* no batch ends without it), with the batch's pattern and a config that is
\* the config of every participant of the batch; and the emitting writes of
\* the batch give every participant that pattern and the batch's batchId.
C36_OneEmitPerBatch ==
    [][\A i \in 1..MaxPQ :
          /\ BatchEnding(i) => pq[i].emitted
          /\ EmitStarts(i)
                => /\ ~pq[i].emitted
                   /\ \A s \in Head(pq[i].groups) :
                         /\ config[s] = config[Min(Head(pq[i].groups))]
                         /\ (store[s].ex /\ store[s].batchId = pq[i].batchId)
                               => store[s].emittedPattern = Some(pq[i].pattern)
          /\ BatchBeginning(i)
                => \A s \in Head(pq'[i].groups) :
                      store'[s].ex
                          => /\ store'[s].batchId = pq'[i].batchId
                             /\ store'[s].emittedPattern = Some(pq'[i].pattern)]_vars




\* The length of a longest common subsequence of e and d: L[i, j] is that of
\* the first i symbols of e and the first j of d.
LongestCommonSubsequence(e, d) ==
    LET L[i \in 0..Len(e), j \in 0..Len(d)] ==
            IF i = 0 \/ j = 0 THEN 0
            ELSE IF e[i] = d[j] THEN L[i - 1, j - 1] + 1
            ELSE IF L[i - 1, j] >= L[i, j - 1] THEN L[i - 1, j] ELSE L[i, j - 1]
    IN  L[Len(e), Len(d)]

\* The length of the longest prefix of e that is a subsequence of d.
LongestMatchedPrefix(e, d) ==
    CHOOSE n \in 0..Len(e) :
        /\ IsSubsequence(SubSeq(e, 1, n), d)
        /\ \A m \in (n + 1)..Len(e) : ~IsSubsequence(SubSeq(e, 1, m), d)

\* C37: the matchCount of comparePatterns is the length of the longest prefix
\* of emitted that is a subsequence of detected, and so never exceeds the
\* length of a longest common subsequence of the two.
C37_MatchCountIsGreedyPrefix ==
    (calc.op = "comparePatterns" /\ calc.returned)
        => /\ calc.result.matchCount
                 = LongestMatchedPrefix(calc.emitted, calc.detected)
           /\ calc.result.matchCount
                 <= LongestCommonSubsequence(calc.emitted, calc.detected)

\* C37 witness: an input for which matchCount is strictly smaller than the
\* longest common subsequence: H L L against L L H matches the H only.
C37_Witness ==
    /\ calc.op = "comparePatterns" /\ calc.returned
    /\ calc.emitted = <<"H", "L", "L">>
    /\ calc.detected = <<"L", "L", "H">>
    /\ calc.result.matchCount = 1
    /\ LongestCommonSubsequence(calc.emitted, calc.detected) = 2




\* C38: in every state of a request, also in a later round on the same
\* record, status verified means passed is true and matchCount is at least
\* NUM_PULSES - 1, and status failed means passed is not true.
C38_StatusAgreesWithPassed ==
    \A s \in Students :
        store[s].ex =>
            /\ store[s].status = "verified"
                  => /\ store[s].passed = Some(TRUE)
                     /\ IsSome(store[s].matchCount)
                     /\ Val(store[s].matchCount) >= NUM_PULSES - 1
            /\ store[s].status = "failed" => store[s].passed # Some(TRUE)




\* C39: after any sequence of analysis frames, no two distinct retained peaks
\* lie within both PEAK_MERGE_FREQ_HZ and PEAK_MERGE_TIME_MS of each other.
C39_RetainedPeaksApart ==
    calc.op = "analyzeLoop"
        => \A j \in 1..Len(calc.peaks), k \in 1..Len(calc.peaks) :
              j # k =>
                  ~(/\ Abs(calc.peaks[j].frequency - calc.peaks[k].frequency)
                          < PEAK_MERGE_FREQ_HZ
                    /\ Abs(calc.peaks[j].timestamp - calc.peaks[k].timestamp)
                          < PEAK_MERGE_TIME_MS)




\* C40: in remote auto-test mode the emission for a test's request is made
\* with the volume and the output-filter setting selected for that test.
C40_EmitsWithTestConfig ==
    (calc.op = "remoteTest" /\ IsSome(calc.test) /\ IsSome(calc.emitted))
        => /\ Val(calc.emitted).volume = Val(calc.test).volume
           /\ useFilter(Val(calc.emitted)) = Val(calc.test).useOutputFilter
====
